---- MODULE Spec2Model ----
(***************************************************************************)
(* Model of the conversation orchestration core of Meister-Eder:           *)
(*   src/src/agent/core.py            EmailAgent                           *)
(*   src/src/agent/response_parser.py parse_llm_response, apply_updates    *)
(*   src/src/models/*.py              ConversationState, RegistrationData  *)
(*   src/src/storage/json_store.py    ConversationStore                    *)
(*                                                                         *)
(* JSON values are tagged records [kind, val]; kind is one of "null",      *)
(* "str", "int", "bool", "list", "dict".  A Python str is a "str" value.   *)
(* Strings that the code inspects character by character (email            *)
(* addresses) are sequences of one-character strings.                      *)
(*                                                                         *)
(* Left out of the state: the timestamps created_at / updated_at /         *)
(* last_activity, ChatMessage.timestamp, metadata.submittedAt,             *)
(* reminder_count and last_inbound_message_id.  No modelled branch reads   *)
(* them.                                                                   *)
(***************************************************************************)
EXTENDS Integers, Sequences, FiniteSets, TLC

VARIABLES
    conversations,   \* data/conversations/<key>.json : file name -> stored dict
    registrations,   \* data/registrations/<key>/     : dir name -> [files, current]
    clock,           \* wall clock in whole seconds (names the version files)
    notifications,   \* requests issued to the AdminNotifier, in call order
    returned,        \* versions returned by save_registration[_version], in call order
    last,            \* observation of the most recent EmailAgent call
    attempts,        \* the calls that reached an escalation decision: [op, key]
    ncalls,          \* number of EmailAgent calls made so far
    faults,          \* which collaborators fail: [notifier, save, write_version]
    probe,           \* a direct call of one of the pure functions: [op, input, output]
    writers          \* save_registration_version calls in progress: writer -> [pc, version, done]

vars == <<conversations, registrations, clock, notifications, returned, last,
          attempts, ncalls, faults, probe, writers>>

(***************************************************************************)
(* Bounds                                                                  *)
(***************************************************************************)
MaxCalls == 3
MaxClock == 1
MaxStoreCalls == 10     \* direct calls of the store, enough for a two-digit version
MaxWrites == 2          \* save_registration_version calls of one writer

(***************************************************************************)
(* JSON values                                                             *)
(***************************************************************************)
NULL == [kind |-> "null", val |-> ""]
JStr(s) == [kind |-> "str", val |-> s]
JInt(s) == [kind |-> "int", val |-> s]
JBool(b) == [kind |-> "bool", val |-> b]
JList(q) == [kind |-> "list", val |-> q]
JDict(d) == [kind |-> "dict", val |-> d]

\* variant: no value is taken for None
IsNone_Never(v) == FALSE

IsNone(v) == v.kind = "null"

\* variant: everything but None is taken for true
Truthy_NotNone(v) == v.kind # "null"

\* Python truthiness: bool(v)
Truthy(v) ==
    CASE v.kind = "null" -> FALSE
      [] v.kind = "str"  -> v.val # ""
      [] v.kind = "int"  -> v.val # "0"
      [] v.kind = "bool" -> v.val
      [] v.kind = "list" -> Len(v.val) > 0
      [] v.kind = "dict" -> DOMAIN v.val # {}

\* Python str(v) for the scalar kinds the model feeds to it
PyStr(v) ==
    CASE v.kind = "str"  -> v
      [] v.kind = "int"  -> JStr(v.val)
      [] v.kind = "bool" -> JStr(IF v.val THEN "True" ELSE "False")
      [] v.kind = "null" -> JStr("None")
      [] OTHER           -> JStr("<repr>")

\* dict.get(key, default)
Get(d, key, default) == IF key \in DOMAIN d THEN d[key] ELSE default

EmptyMap == [k \in {} |-> NULL]

(***************************************************************************)
(* normalize_email / _email_to_filename  (json_store.py 35-48)             *)
(* An address is a sequence of one-character strings.                      *)
(***************************************************************************)
IsSpace(c) == c = " "

\* variant: the case of a letter is kept
Lower_KeepCase(c) == c

Lower(c) ==
    CASE c = "A" -> "a"
      [] c = "B" -> "b"
      [] c = "X" -> "x"
      [] OTHER   -> c

RECURSIVE LStrip(_)
LStrip(s) == IF s # <<>> /\ IsSpace(Head(s)) THEN LStrip(Tail(s)) ELSE s

RECURSIVE RStrip(_)
RStrip(s) ==
    IF s # <<>> /\ IsSpace(s[Len(s)]) THEN RStrip(SubSeq(s, 1, Len(s) - 1)) ELSE s

Strip(s) == RStrip(LStrip(s))

normalize_email(email) == [i \in 1..Len(Strip(email)) |-> Lower(Strip(email)[i])]

RECURSIVE ReplaceAt(_)
ReplaceAt(s) ==
    IF s = <<>> THEN <<>>
    ELSE IF Head(s) = "@" THEN <<"_", "a", "t", "_">> \o ReplaceAt(Tail(s))
    ELSE <<Head(s)>> \o ReplaceAt(Tail(s))

_email_to_filename(email) == ReplaceAt(normalize_email(email))

(***************************************************************************)
(* RegistrationData  (models/registration.py)                              *)
(***************************************************************************)
ChildInfo == [full_name |-> NULL, date_of_birth |-> NULL, special_needs |-> NULL]

ParentGuardian ==
    [full_name |-> NULL, street_address |-> NULL, postal_code |-> NULL,
     city |-> NULL, phone |-> NULL, email |-> NULL]

EmergencyContact == [full_name |-> NULL, phone |-> NULL]

Booking == [playgroup_types |-> <<>>, selected_days |-> <<>>]

RegistrationData ==
    [child |-> ChildInfo, parent_guardian |-> ParentGuardian,
     emergency_contact |-> EmergencyContact, booking |-> Booking]

BookingDay(d, t) == [day |-> d, type |-> t]

is_complete(reg) ==
    /\ Truthy(reg.child.full_name)
    /\ Truthy(reg.child.date_of_birth)
    /\ ~IsNone(reg.child.special_needs)
    /\ Truthy(reg.parent_guardian.full_name)
    /\ Truthy(reg.parent_guardian.street_address)
    /\ Truthy(reg.parent_guardian.postal_code)
    /\ Truthy(reg.parent_guardian.city)
    /\ Truthy(reg.parent_guardian.phone)
    /\ Truthy(reg.parent_guardian.email)
    /\ Truthy(reg.emergency_contact.full_name)
    /\ Truthy(reg.emergency_contact.phone)
    /\ Len(reg.booking.playgroup_types) > 0
    /\ Len(reg.booking.selected_days) > 0

\* RegistrationData.to_dict: the nested camelCase dict
RegToDict(reg) ==
    [child |-> JDict([fullName |-> reg.child.full_name,
                      dateOfBirth |-> reg.child.date_of_birth,
                      specialNeeds |-> reg.child.special_needs]),
     parentGuardian |-> JDict([fullName |-> reg.parent_guardian.full_name,
                               streetAddress |-> reg.parent_guardian.street_address,
                               postalCode |-> reg.parent_guardian.postal_code,
                               city |-> reg.parent_guardian.city,
                               phone |-> reg.parent_guardian.phone,
                               email |-> reg.parent_guardian.email]),
     emergencyContact |-> JDict([fullName |-> reg.emergency_contact.full_name,
                                 phone |-> reg.emergency_contact.phone]),
     booking |-> JDict([playgroupTypes |-> JList(reg.booking.playgroup_types),
                        selectedDays |->
                            JList([i \in 1..Len(reg.booking.selected_days) |->
                                JDict([day |-> reg.booking.selected_days[i].day,
                                       type |-> reg.booking.selected_days[i].type])])])]

\* RegistrationData.from_dict: a missing or empty section keeps the default
RegFromDict(data) ==
    LET child     == Get(data, "child", JDict(EmptyMap))
        parent    == Get(data, "parentGuardian", JDict(EmptyMap))
        emergency == Get(data, "emergencyContact", JDict(EmptyMap))
        booking   == Get(data, "booking", JDict(EmptyMap))
        days      == Get(booking.val, "selectedDays", JList(<<>>)).val
    IN  [child |->
            IF Truthy(child)
            THEN [full_name |-> Get(child.val, "fullName", NULL),
                  date_of_birth |-> Get(child.val, "dateOfBirth", NULL),
                  special_needs |-> Get(child.val, "specialNeeds", NULL)]
            ELSE ChildInfo,
         parent_guardian |->
            IF Truthy(parent)
            THEN [full_name |-> Get(parent.val, "fullName", NULL),
                  street_address |-> Get(parent.val, "streetAddress", NULL),
                  postal_code |-> Get(parent.val, "postalCode", NULL),
                  city |-> Get(parent.val, "city", NULL),
                  phone |-> Get(parent.val, "phone", NULL),
                  email |-> Get(parent.val, "email", NULL)]
            ELSE ParentGuardian,
         emergency_contact |->
            IF Truthy(emergency)
            THEN [full_name |-> Get(emergency.val, "fullName", NULL),
                  phone |-> Get(emergency.val, "phone", NULL)]
            ELSE EmergencyContact,
         booking |->
            IF Truthy(booking)
            THEN [playgroup_types |-> Get(booking.val, "playgroupTypes", JList(<<>>)).val,
                  selected_days |->
                      [i \in 1..Len(days) |-> BookingDay(days[i].val["day"], days[i].val["type"])]]
            ELSE Booking]

(***************************************************************************)
(* ConversationState  (models/conversation.py)                             *)
(* The dataclass declares no loop_escalated field: the attribute exists on *)
(* an instance only after an assignment (has_loop_escalated), and to_dict  *)
(* / from_dict do not carry it.                                            *)
(***************************************************************************)
ChatMessage(role, content) == [role |-> role, content |-> content]

\* variant: the dataclass declares loop_escalated = False (still not serialized)
ConversationState_WithFlag(conversation_id, parent_email) ==
    [conversation_id |-> conversation_id,
     language |-> JStr("de"),
     flow_step |-> JStr("greeting"),
     registration |-> RegistrationData,
     messages |-> <<>>,
     parent_email |-> parent_email,
     parent_name |-> NULL,
     completed |-> FALSE,
     has_loop_escalated |-> TRUE,
     loop_escalated |-> FALSE]

ConversationState(conversation_id, parent_email) ==
    [conversation_id |-> conversation_id,
     language |-> JStr("de"),
     flow_step |-> JStr("greeting"),
     registration |-> RegistrationData,
     messages |-> <<>>,
     parent_email |-> parent_email,
     parent_name |-> NULL,
     completed |-> FALSE,
     has_loop_escalated |-> FALSE,
     loop_escalated |-> FALSE]

StateToDict(state) ==
    [conversation_id |-> state.conversation_id,
     language |-> state.language,
     flow_step |-> state.flow_step,
     registration |-> RegToDict(state.registration),
     messages |-> [i \in 1..Len(state.messages) |->
                      [role |-> state.messages[i].role,
                       content |-> state.messages[i].content]],
     parent_email |-> state.parent_email,
     parent_name |-> state.parent_name,
     completed |-> state.completed]

\* variant: the completed flag is not restored
StateFromDict_NoCompleted(data) ==
    [ConversationState(data.conversation_id, <<>>) EXCEPT
        !.language = Get(data, "language", JStr("de")),
        !.flow_step = Get(data, "flow_step", JStr("greeting")),
        !.registration = RegFromDict(Get(data, "registration", EmptyMap)),
        !.messages = [i \in 1..Len(Get(data, "messages", <<>>)) |->
                         ChatMessage(data.messages[i].role, data.messages[i].content)],
        !.parent_email = Get(data, "parent_email", <<>>),
        !.parent_name = Get(data, "parent_name", NULL)]

StateFromDict(data) ==
    [ConversationState(data.conversation_id, <<>>) EXCEPT
        !.language = Get(data, "language", JStr("de")),
        !.flow_step = Get(data, "flow_step", JStr("greeting")),
        !.registration = RegFromDict(Get(data, "registration", EmptyMap)),
        !.messages = [i \in 1..Len(Get(data, "messages", <<>>)) |->
                         ChatMessage(data.messages[i].role, data.messages[i].content)],
        !.parent_email = Get(data, "parent_email", <<>>),
        !.parent_name = Get(data, "parent_name", NULL),
        !.completed = Get(data, "completed", FALSE)]

(***************************************************************************)
(* parse_llm_response  (agent/response_parser.py 13-49)                    *)
(* A model output is [form, raw, json]: raw is the text itself, form says  *)
(* where JSON sits in it and json is what json.loads yields there.         *)
(*   "bare"     the stripped text is JSON                                  *)
(*   "fenced"   the stripped text is one ```json fence around JSON         *)
(*   "embedded" prose around a brace-to-brace substring that is JSON       *)
(*   "badbrace" prose around braces that are not JSON                      *)
(*   "prose"    no braces, not JSON                                        *)
(***************************************************************************)
FallbackParse(content) ==
    JDict([reply |-> JStr(content.raw),
           intent |-> JStr("question"),
           updates |-> JDict(EmptyMap),
           next_step |-> JStr("greeting"),
           registration_complete |-> JBool(FALSE),
           language |-> JStr("de")])

parse_llm_response(content) ==
    IF content.form \in {"bare", "fenced"} THEN content.json
    ELSE IF content.form = "embedded" THEN content.json
    ELSE FallbackParse(content)

(***************************************************************************)
(* apply_updates  (agent/response_parser.py 52-87)                         *)
(***************************************************************************)
FieldMapKeys ==
    {"child.fullName", "child.dateOfBirth", "child.specialNeeds",
     "parentGuardian.fullName", "parentGuardian.streetAddress",
     "parentGuardian.postalCode", "parentGuardian.city", "parentGuardian.phone",
     "parentGuardian.email", "emergencyContact.fullName", "emergencyContact.phone"}

\* variant: the value is stored as it came, without str()
PostalCodeSetter_Raw(state, v) ==
    [state EXCEPT !.registration.parent_guardian.postal_code = v]

PostalCodeSetter(state, v) ==
    [state EXCEPT !.registration.parent_guardian.postal_code = PyStr(v)]

field_map(state, key, v) ==
    CASE key = "child.fullName" -> [state EXCEPT !.registration.child.full_name = v]
      [] key = "child.dateOfBirth" -> [state EXCEPT !.registration.child.date_of_birth = v]
      [] key = "child.specialNeeds" -> [state EXCEPT !.registration.child.special_needs = v]
      [] key = "parentGuardian.fullName" ->
            [state EXCEPT !.registration.parent_guardian.full_name = v, !.parent_name = v]
      [] key = "parentGuardian.streetAddress" ->
            [state EXCEPT !.registration.parent_guardian.street_address = v]
      [] key = "parentGuardian.postalCode" -> PostalCodeSetter(state, v)
      [] key = "parentGuardian.city" -> [state EXCEPT !.registration.parent_guardian.city = v]
      [] key = "parentGuardian.phone" -> [state EXCEPT !.registration.parent_guardian.phone = v]
      [] key = "parentGuardian.email" -> [state EXCEPT !.registration.parent_guardian.email = v]
      [] key = "emergencyContact.fullName" ->
            [state EXCEPT !.registration.emergency_contact.full_name = v]
      [] key = "emergencyContact.phone" ->
            [state EXCEPT !.registration.emergency_contact.phone = v]

\* variant: only indoor entries are kept
IsDayEntry_IndoorOnly(d) ==
    d.kind = "dict" /\ "day" \in DOMAIN d.val /\ "type" \in DOMAIN d.val
        /\ d.val["type"] = JStr("indoor")

IsDayEntry(d) == d.kind = "dict" /\ "day" \in DOMAIN d.val /\ "type" \in DOMAIN d.val

\* one iteration of the loop over updates.items()
ApplyEntry(state, key, value) ==
    IF IsNone(value) THEN state
    ELSE IF key \in FieldMapKeys THEN field_map(state, key, value)
    ELSE IF key = "booking.playgroupTypes" /\ value.kind = "list"
         THEN [state EXCEPT !.registration.booking.playgroup_types = value.val]
    ELSE IF key = "booking.selectedDays" /\ value.kind = "list"
         THEN LET kept == SelectSeq(value.val, IsDayEntry)
              IN  [state EXCEPT !.registration.booking.selected_days =
                      [i \in 1..Len(kept) |-> BookingDay(kept[i].val["day"], kept[i].val["type"])]]
    ELSE state

RECURSIVE ApplyItems(_, _, _)
ApplyItems(state, updates, keys) ==
    IF keys = {} THEN state
    ELSE LET k == CHOOSE x \in keys : TRUE
         IN  ApplyItems(ApplyEntry(state, k, updates[k]), updates, keys \ {k})

KnownPaths == FieldMapKeys \cup {"booking.playgroupTypes", "booking.selectedDays"}

\* variant: a mapping with an unknown path is rejected as a whole
apply_updates_KnownOnly(state, updates) ==
    IF DOMAIN updates.val \subseteq KnownPaths
    THEN ApplyItems(state, updates.val, DOMAIN updates.val)
    ELSE state

\* apply_updates(state, updates) for a dict; anything else has no .items()
apply_updates(state, updates) == ApplyItems(state, updates.val, DOMAIN updates.val)

ApplyUpdatesRaises(updates) == updates.kind # "dict"

FALLBACK_EN == "I'm sorry, I'm having a technical issue right now."
FALLBACK_DE == "Entschuldigung, ich habe gerade ein technisches Problem."

\* variant: the language is ignored
fallback_message_AlwaysGerman(language) == JStr(FALLBACK_DE)

fallback_message(language) ==
    IF language = JStr("en") THEN JStr(FALLBACK_EN) ELSE JStr(FALLBACK_DE)

(***************************************************************************)
(* _diff_registrations  (storage/json_store.py 60-84)                      *)
(***************************************************************************)
RECURSIVE _flatten(_, _)
_flatten(d, prefix) ==
    LET Key(k) == IF prefix = "" THEN k ELSE prefix \o "." \o k
    IN  UNION { IF d[k].kind = "dict"
                THEN _flatten(d[k].val, Key(k))
                ELSE {<<Key(k), d[k]>>} : k \in DOMAIN d }

FlatGet(flat, key) ==
    IF \E p \in flat : p[1] = key THEN (CHOOSE p \in flat : p[1] = key)[2] ELSE NULL

\* the number a bool or an int compares as: True == 1 and False == 0
Num(v) == IF v.kind = "bool" THEN (IF v.val THEN "1" ELSE "0") ELSE v.val

\* Python == on JSON values
RECURSIVE PyEq(_, _)
PyEq(a, b) ==
    IF a.kind \in {"int", "bool"} /\ b.kind \in {"int", "bool"} THEN Num(a) = Num(b)
    ELSE IF a.kind # b.kind THEN FALSE
    ELSE IF a.kind = "list"
         THEN /\ Len(a.val) = Len(b.val)
              /\ \A i \in 1..Len(a.val) : PyEq(a.val[i], b.val[i])
    ELSE IF a.kind = "dict"
         THEN /\ DOMAIN a.val = DOMAIN b.val
              /\ \A k \in DOMAIN a.val : PyEq(a.val[k], b.val[k])
    ELSE a.val = b.val

\* variant: every path counts as changed
DiffTest_Always(o, n) == TRUE

DiffTest(o, n) == ~PyEq(o, n)

\* variant: the pair is (new, old)
Changes_Swapped(old_flat, new_flat, changed) ==
    [key \in changed |-> <<FlatGet(new_flat, key), FlatGet(old_flat, key)>>]

Changes(old_flat, new_flat, changed) ==
    [key \in changed |-> <<FlatGet(old_flat, key), FlatGet(new_flat, key)>>]

DiffFlat(old_flat, new_flat) ==
    Changes(old_flat, new_flat,
            {key \in {p[1] : p \in old_flat \cup new_flat} :
                DiffTest(FlatGet(old_flat, key), FlatGet(new_flat, key))})

_diff_registrations(old, new) == DiffFlat(_flatten(old, ""), _flatten(new, ""))

(***************************************************************************)
(* ConversationStore  (storage/json_store.py 91-270)                       *)
(* registrations[dir] = [files, current]: files is the set of version      *)
(* files [name, data] with name = [version, ts] for "v<version>_<ts>.json" *)
(* and current is <<>> or <<data>> for current.json.                       *)
(***************************************************************************)
_conversation_path(email_address) == _email_to_filename(email_address)

Exists(convs, email_address) == _conversation_path(email_address) \in DOMAIN convs

\* ConversationStore.load, for an address whose file exists
load(convs, email_address) == StateFromDict(convs[_conversation_path(email_address)])

PathOwner(state) ==
    IF state.parent_email # <<>> THEN state.parent_email ELSE state.conversation_id

\* ConversationStore.save
save(convs, state) ==
    (_conversation_path(PathOwner(state)) :> StateToDict(state)) @@ convs

EmptyDir == [files |-> {}, current |-> <<>>]

RegDir(regs, key) == IF key \in DOMAIN regs THEN regs[key] ELSE EmptyDir

\* record = dict(reg_data) plus "metadata" (submittedAt is left out)
_build_record(reg_data, version, state) ==
    [metadata |-> [version |-> version,
                   channel |-> "email",
                   parentEmail |-> state.parent_email,
                   conversationId |-> state.conversation_id]] @@ reg_data

_write_version(dir, version, record, ts) ==
    LET name == [version |-> version, ts |-> ts]
    IN  [files |-> {f \in dir.files : f.name # name} \cup {[name |-> name, data |-> record]},
         current |-> <<record>>]

\* decimal digits of a natural number, as characters
RECURSIVE Digits(_)
Digits(n) ==
    LET d == <<"0", "1", "2", "3", "4", "5", "6", "7", "8", "9">>
    IN  IF n < 10 THEN <<d[n + 1]>> ELSE Digits(n \div 10) \o <<d[(n % 10) + 1]>>

CharCode(c) ==
    CASE c = "_" -> 95
      [] c = "0" -> 48 [] c = "1" -> 49 [] c = "2" -> 50 [] c = "3" -> 51
      [] c = "4" -> 52 [] c = "5" -> 53 [] c = "6" -> 54 [] c = "7" -> 55
      [] c = "8" -> 56 [] c = "9" -> 57

RECURSIVE LexLess(_, _)
LexLess(a, b) ==
    IF a = <<>> THEN b # <<>>
    ELSE IF b = <<>> THEN FALSE
    ELSE IF Head(a) # Head(b) THEN CharCode(Head(a)) < CharCode(Head(b))
    ELSE LexLess(Tail(a), Tail(b))

\* order of two file names as sorted() orders the paths; the timestamp has
\* a fixed width, so it orders like the clock value
NameLess(n1, n2) ==
    LET s1 == Digits(n1.version) \o <<"_">>
        s2 == Digits(n2.version) \o <<"_">>
    IN  IF s1 # s2 THEN LexLess(s1, s2) ELSE n1.ts < n2.ts

RECURSIVE SortedFiles(_)
SortedFiles(files) ==
    IF files = {} THEN <<>>
    ELSE LET first == CHOOSE f \in files : \A g \in files \ {f} : NameLess(f.name, g.name)
         IN  <<first>> \o SortedFiles(files \ {first})

\* ConversationStore.get_registration_history
get_registration_history(regs, email_address) ==
    LET dir == RegDir(regs, _email_to_filename(email_address))
        sorted == SortedFiles(dir.files)
    IN  [i \in 1..Len(sorted) |-> sorted[i].data]

\* ConversationStore.get_current_registration: <<>> stands for None
get_current_registration(regs, email_address) ==
    RegDir(regs, _email_to_filename(email_address)).current

FirstVersion == 1

\* ConversationStore.save_registration -> [regs, key, version]
save_registration(regs, state, ts) ==
    LET email_key == _email_to_filename(PathOwner(state))
        version   == FirstVersion
        record    == _build_record(RegToDict(state.registration), version, state)
    IN  [regs |-> (email_key :> _write_version(RegDir(regs, email_key), version, record, ts)) @@ regs,
         key |-> email_key,
         version |-> version]

\* variant: the new version is the count itself
NextVersion_OffByOne(history) == Len(history)

NextVersion(history) == Len(history) + 1

\* json_store.py 188-189: the version is taken from the files present now
ReadVersion(regs, state) == NextVersion(get_registration_history(regs, PathOwner(state)))

\* json_store.py 191-198: the record of that version is built and written
WriteVersion(regs, state, change_summary, version, ts) ==
    LET email_key == _email_to_filename(PathOwner(state))
        base      == _build_record(RegToDict(state.registration), version, state)
        summary   == [k \in DOMAIN change_summary |->
                         [old |-> change_summary[k][1], new |-> change_summary[k][2]]]
        record    == [base EXCEPT !.metadata = [changeSummary |-> summary] @@ base.metadata]
    IN  [regs |-> (email_key :> _write_version(RegDir(regs, email_key), version, record, ts)) @@ regs,
         key |-> email_key,
         version |-> version]

\* ConversationStore.save_registration_version -> [regs, key, version]
save_registration_version(regs, state, change_summary, ts) ==
    WriteVersion(regs, state, change_summary, ReadVersion(regs, state), ts)

(***************************************************************************)
(* EmailAgent  (agent/core.py)                                             *)
(* A handler works on env = [registrations, notifications, returned] and   *)
(* yields [state, env, raised, reply].  raised = TRUE is an exception that *)
(* leaves the handler; the values next to it are those at the raise.       *)
(* Each handler is written as a chain of steps, one operator per step,     *)
(* the values computed so far being passed on as arguments.                *)
(***************************************************************************)
MAX_USER_MESSAGES == 20

Outcome(state, env, raised, reply) ==
    [state |-> state, env |-> env, raised |-> raised, reply |-> reply]

NoReply == JStr("")

\* llm.complete raised, or parse_llm_response raised on its result (None
\* has no strip()): both are caught by the handler's except clause
CallFails(llm) == llm.raises \/ llm.content.form = "none"

OrEmpty(u) == IF Truthy(u) THEN u ELSE JDict(EmptyMap)

\* updates = parsed.get("updates", {}) or {}
UpdatesOf(parsed) == OrEmpty(Get(parsed.val, "updates", JDict(EmptyMap)))

\* a notifier call inside try/except: the request is made; an exception it
\* raises is logged and goes no further
Notify(env, request) ==
    [env EXCEPT !.notifications =
        Append(@, [raised |-> env.faults.notifier] @@ request)]

\* ConversationStore.save (json_store.py 122-128): a failed write is logged,
\* the file stays as it was
TrySave(convs, env, state) == IF env.faults.save THEN convs ELSE save(convs, state)

Returned(env, call, saved) ==
    [env EXCEPT !.registrations = saved.regs,
                !.returned = Append(@, [call |-> call, key |-> saved.key,
                                        version |-> saved.version])]

\* variant: the latch test is inverted
CompletionGuard_Inverted(flag, state) == flag /\ state.completed

CompletionGuard(flag, state) == flag /\ ~state.completed

\* core.py 218-234: notify_admin, then notify_parent
CompletionNotified(state, env, saved, reply_text) ==
    Outcome(state,
            Notify(Notify(Returned(env, "save_registration", saved),
                          [kind |-> "notify_admin",
                           registration |-> state.registration,
                           registration_id |-> saved.key,
                           version |-> saved.version,
                           conversation_id |-> state.conversation_id,
                           channel |-> "email"]),
                   [kind |-> "notify_parent",
                    registration |-> state.registration,
                    language |-> state.language]),
            FALSE, reply_text)

\* core.py 215-237: the completion transition
\* save_registration is called outside any try: an exception of
\* _write_version (json_store.py 264) leaves the handler
CompletionStored(state, env, ts, reply_text) ==
    IF env.faults.write_version THEN Outcome(state, env, TRUE, NoReply)
    ELSE CompletionNotified(state, env,
                            save_registration(env.registrations, state, ts),
                            reply_text)

CompletionTransition(state, env, ts, reply_text, reg_complete) ==
    IF CompletionGuard(reg_complete, state)
    THEN CompletionStored([state EXCEPT !.completed = TRUE], env, ts, reply_text)
    ELSE Outcome(state, env, FALSE, reply_text)

\* core.py 211-213: apply the updates, set flow_step and language
RegistrationFields(state, env, ts, reply_text, updates, next_step, reg_complete, language) ==
    IF ApplyUpdatesRaises(updates) THEN Outcome(state, env, TRUE, NoReply)
    ELSE CompletionTransition([apply_updates(state, updates) EXCEPT
                                  !.flow_step = next_step, !.language = language],
                              env, ts, reply_text, reg_complete)

\* core.py 205-209: parsed.get(...) raises AttributeError unless parsed is a dict
RegistrationParsed(state, env, parsed, ts) ==
    IF parsed.kind # "dict" THEN Outcome(state, env, TRUE, NoReply)
    ELSE RegistrationFields(state, env, ts,
            Get(parsed.val, "reply", JStr("")),
            UpdatesOf(parsed),
            Get(parsed.val, "next_step", state.flow_step),
            Truthy(Get(parsed.val, "registration_complete", JBool(FALSE))),
            Get(parsed.val, "language", state.language))

_handle_registration(state, env, llm, ts) ==
    IF CallFails(llm) THEN Outcome(state, env, FALSE, fallback_message(state.language))
    ELSE RegistrationParsed(state, env, parse_llm_response(llm.content), ts)

\* core.py 281-292: store the version, then notify_registration_update
UpdateNotified(state, env, saved, change_summary, reply_text) ==
    Outcome(state,
            Notify(Returned(env, "save_registration_version", saved),
                   [kind |-> "notify_registration_update",
                    registration |-> state.registration,
                    registration_id |-> saved.key,
                    version |-> saved.version,
                    change_summary |-> change_summary,
                    conversation_id |-> state.conversation_id]),
            FALSE, reply_text)

\* core.py 277-281: nothing to do for an empty diff
UpdateDiffed(state, env, change_summary, ts, reply_text) ==
    IF DOMAIN change_summary = {} THEN Outcome(state, env, FALSE, reply_text)
    ELSE IF env.faults.write_version THEN Outcome(state, env, TRUE, NoReply)
    ELSE UpdateNotified(state, env,
                        save_registration_version(env.registrations, state,
                                                  change_summary, ts),
                        change_summary, reply_text)

UpdateApplied(old_state, state, env, ts, reply_text) ==
    UpdateDiffed(state, env,
                 _diff_registrations(RegToDict(old_state.registration),
                                     RegToDict(state.registration)),
                 ts, reply_text)

\* the handler's return value is the caller's reply_text
_handle_registration_update(state, env, updates, ts, reply_text) ==
    UpdateApplied(state, apply_updates(state, updates), env, ts, reply_text)

AnyNonNull(updates) == \E k \in DOMAIN updates.val : ~IsNone(updates.val[k])

\* variant: every intent is taken for an update
IsUpdate_Always(intent) == TRUE

IsUpdate(intent) == intent = JStr("update")

\* variant: every intent other than "update" starts a new child
IsNewChild_NotUpdate(intent) == intent # JStr("update")

IsNewChild(intent) == intent = JStr("new_child")

\* variant: the flow restarts at the greeting
NewChildStep_Greeting == JStr("greeting")

NewChildStep == JStr("child_name")

\* core.py 260-269: the branch on intent
PostCompletionFields(state, env, ts, reply_text, intent, updates) ==
    IF IsUpdate(intent)
    THEN IF updates.kind # "dict" THEN Outcome(state, env, TRUE, NoReply)
         ELSE IF AnyNonNull(updates)
         THEN _handle_registration_update(state, env, updates, ts, reply_text)
         ELSE Outcome(state, env, FALSE, reply_text)
    ELSE IF IsNewChild(intent)
    THEN Outcome([state EXCEPT !.registration = RegistrationData,
                               !.completed = FALSE,
                               !.flow_step = NewChildStep],
                 env, FALSE, reply_text)
    ELSE Outcome(state, env, FALSE, reply_text)

\* core.py 254-258
PostCompletionParsed(state, env, parsed, ts) ==
    IF parsed.kind # "dict" THEN Outcome(state, env, TRUE, NoReply)
    ELSE PostCompletionFields(
            [state EXCEPT !.language = Get(parsed.val, "language", state.language)],
            env, ts,
            Get(parsed.val, "reply", JStr("")),
            Get(parsed.val, "intent", JStr("question")),
            UpdatesOf(parsed))

_handle_post_completion(state, env, llm, ts) ==
    IF CallFails(llm) THEN Outcome(state, env, FALSE, fallback_message(state.language))
    ELSE PostCompletionParsed(state, env, parse_llm_response(llm.content), ts)

UserCount(messages) == Cardinality({i \in 1..Len(messages) : messages[i].role = "user"})

OverCap(user_msg_count) == user_msg_count > MAX_USER_MESSAGES

LoadOrCreate(convs, email_key) ==
    IF Exists(convs, email_key) THEN load(convs, email_key)
    ELSE ConversationState(email_key, email_key)

Env == [registrations |-> registrations, notifications |-> notifications,
        returned |-> returned, faults |-> faults]

EscalationRequest(sender_email, email_key, reason, message_count) ==
    [kind |-> "notify_loop_escalation", sender_email |-> sender_email,
     conversation_id |-> email_key, reason |-> reason, message_count |-> message_count]

Result(convs, env, raised, reply, llm_called, count) ==
    [convs |-> convs, env |-> env, raised |-> raised, reply |-> reply,
     llm_called |-> llm_called, count |-> count]

\* core.py 92-121: the message cap; reading state.loop_escalated raises
\* AttributeError when the instance has no such attribute
CapExceeded(convs, env, parent_email, state, user_msg_count) ==
    IF ~state.has_loop_escalated
    THEN Result(convs, env, TRUE, NoReply, FALSE, user_msg_count)
    ELSE IF ~state.loop_escalated
    THEN Result(TrySave(convs, env, [state EXCEPT !.loop_escalated = TRUE]),
                Notify(env, EscalationRequest(parent_email, state.conversation_id,
                                              "message limit", user_msg_count)),
                FALSE, NoReply, FALSE, user_msg_count)
    ELSE Result(TrySave(convs, env, state), env, FALSE, NoReply, FALSE, user_msg_count)

\* core.py 129-134: an exception raised in a handler leaves process_message
\* before the final save; what the handler stored or sent before stays
Replied(convs, r, user_msg_count) ==
    IF r.raised
    THEN Result(convs, r.env, TRUE, NoReply, TRUE, user_msg_count)
    ELSE Result(TrySave(convs, r.env,
                        [r.state EXCEPT !.messages =
                            Append(@, ChatMessage("assistant", r.reply))]),
                r.env, FALSE, r.reply, TRUE, user_msg_count)

\* core.py 123-127
Routed(state, env, llm, ts) ==
    IF state.completed
    THEN _handle_post_completion(state, env, llm, ts)
    ELSE _handle_registration(state, env, llm, ts)

Counted(convs, env, parent_email, state, user_msg_count, llm, ts) ==
    IF OverCap(user_msg_count)
    THEN CapExceeded(convs, env, parent_email, state, user_msg_count)
    ELSE Replied(convs, Routed(state, env, llm, ts), user_msg_count)

UserMessageAppended(convs, env, parent_email, state, llm, ts) ==
    Counted(convs, env, parent_email, state, UserCount(state.messages), llm, ts)

Loaded(convs, env, parent_email, state0, message_text, llm, ts) ==
    UserMessageAppended(convs, env, parent_email,
        [state0 EXCEPT !.messages = Append(@, ChatMessage("user", message_text))],
        llm, ts)

\* EmailAgent.process_message as a function of the stored files:
\* [convs, env, raised, reply, llm_called, count]
process_message(convs, env, parent_email, message_text, llm, ts) ==
    Loaded(convs, env, parent_email,
           LoadOrCreate(convs, normalize_email(parent_email)),
           message_text, llm, ts)

AutomatedLoaded(convs, env, sender_email, reason, state) ==
    IF ~state.has_loop_escalated
    THEN \* AttributeError on reading state.loop_escalated
         [convs |-> convs, env |-> env, raised |-> TRUE]
    ELSE IF state.loop_escalated
    THEN [convs |-> TrySave(convs, env, state), env |-> env, raised |-> FALSE]
    ELSE [convs |-> TrySave(convs, env, [state EXCEPT !.loop_escalated = TRUE]),
          env |-> Notify(env, EscalationRequest(sender_email, state.conversation_id,
                                                reason, UserCount(state.messages))),
          raised |-> FALSE]

\* EmailAgent.handle_automated_message: [convs, env, raised]
handle_automated_message(convs, env, sender_email, reason) ==
    AutomatedLoaded(convs, env, sender_email, reason,
                    LoadOrCreate(convs, normalize_email(sender_email)))

(***************************************************************************)
(* The chat handler  (chat_app.py 111-243)                                 *)
(* The session holds the state as a dict; the store and the notifier are   *)
(* the ones of the e-mail channel.  A handler yields [session, env,        *)
(* raised, sent]: the session dict afterwards and the message sent.        *)
(***************************************************************************)
RECURSIVE Decimal(_)
Decimal(n) ==
    LET d == <<"0", "1", "2", "3", "4", "5", "6", "7", "8", "9">>
    IN  IF n < 10 THEN d[n + 1] ELSE Decimal(n \div 10) \o d[(n % 10) + 1]

\* a stored "metadata" object as json.loads returns it
MetadataJson(m) ==
    [k \in DOMAIN m |->
        CASE k = "version" -> JInt(Decimal(m[k]))
          [] k = "changeSummary" ->
                JDict([path \in DOMAIN m[k] |-> JList(<<m[k][path].old, m[k][path].new>>)])
          [] OTHER -> JStr(m[k])]

\* a stored record as json.loads returns it
RecordJson(record) == [record EXCEPT !.metadata = JDict(MetadataJson(record.metadata))]

ChatOutcome(session, env, raised, sent) ==
    [session |-> session, env |-> env, raised |-> raised, sent |-> sent]

\* chat_app.py 229-244: both calls sit in one try
ChatUpdateNotified(state, env, saved, change_summary) ==
    Notify(Returned(env, "save_registration_version", saved),
           [kind |-> "notify_registration_update",
            registration |-> state.registration,
            registration_id |-> saved.key,
            version |-> saved.version,
            change_summary |-> change_summary,
            conversation_id |-> state.conversation_id])

\* chat_app.py 225-229
ChatUpdateDiffed(state, env, change_summary, ts) ==
    IF DOMAIN change_summary = {} \/ env.faults.write_version THEN env
    ELSE ChatUpdateNotified(state, env,
                            save_registration_version(env.registrations, state,
                                                      change_summary, ts),
                            change_summary)

\* chat_app.py 220-225: the diff is taken against current.json
ChatCurrentRead(state, env, current, ts) ==
    IF current = <<>> THEN env
    ELSE ChatUpdateDiffed(state, env,
                          _diff_registrations(RecordJson(current[1]),
                                              RegToDict(state.registration)),
                          ts)

\* chat_app._handle_registration_update: the env afterwards
chat_handle_registration_update(state, env, ts) ==
    ChatCurrentRead(state, env,
                    get_current_registration(env.registrations, state.conversation_id), ts)

\* chat_app.py 186-191
ChatReset(state, intent) ==
    IF state.completed /\ IsNewChild(intent)
    THEN [state EXCEPT !.registration = RegistrationData,
                       !.completed = FALSE,
                       !.flow_step = NewChildStep]
    ELSE state

\* chat_app.py 182-194
ChatUpdated(state, env, ts, reply_text, intent, updates) ==
    ChatOutcome(StateToDict(ChatReset(state, intent)),
                IF state.completed /\ IsUpdate(intent) /\ AnyNonNull(updates)
                THEN chat_handle_registration_update(state, env, ts)
                ELSE env,
                FALSE, reply_text)

\* chat_app.py 161-170: save_registration and notify_admin in one try
ChatAdminNotified(state, env, saved) ==
    Notify(Returned(env, "save_registration", saved),
           [kind |-> "notify_admin",
            registration |-> state.registration,
            registration_id |-> saved.key,
            version |-> saved.version,
            conversation_id |-> state.conversation_id,
            channel |-> "chat"])

\* chat_app.py 159-180
ChatCompletionEnv(state, env, ts) ==
    Notify(IF env.faults.write_version THEN env
           ELSE ChatAdminNotified(state, env,
                                  save_registration(env.registrations, state, ts)),
           [kind |-> "notify_parent",
            registration |-> state.registration,
            language |-> state.language])

ChatCompletion(state, env, ts, reply_text, intent, updates, reg_complete) ==
    IF CompletionGuard(reg_complete, state)
    THEN ChatUpdated([state EXCEPT !.completed = TRUE],
                     ChatCompletionEnv([state EXCEPT !.completed = TRUE], env, ts),
                     ts, reply_text, intent, updates)
    ELSE ChatUpdated(state, env, ts, reply_text, intent, updates)

\* chat_app.py 147-156: the updates are applied on every turn
ChatFields(session, state, env, ts, reply_text, updates, next_step, reg_complete, language, intent) ==
    IF ApplyUpdatesRaises(updates) THEN ChatOutcome(session, env, TRUE, NoReply)
    ELSE ChatCompletion([apply_updates(state, updates) EXCEPT
                            !.flow_step = next_step,
                            !.language = language,
                            !.messages = Append(@, ChatMessage("assistant", reply_text))],
                        env, ts, reply_text, intent, updates, reg_complete)

\* chat_app.py 138-145: parsed.get(...) outside any try
ChatParsed(session, state, env, content, parsed, ts) ==
    IF parsed.kind # "dict" THEN ChatOutcome(session, env, TRUE, NoReply)
    ELSE ChatFields(session, state, env, ts,
            Get(parsed.val, "reply", JStr(content.raw)),
            UpdatesOf(parsed),
            Get(parsed.val, "next_step", state.flow_step),
            Truthy(Get(parsed.val, "registration_complete", JBool(FALSE))),
            Get(parsed.val, "language", state.language),
            Get(parsed.val, "intent", JStr("")))

\* chat_app.py 127-138: only the model call sits in the try
ChatCalled(session, state, env, llm, ts) ==
    IF llm.raises THEN ChatOutcome(session, env, FALSE, fallback_message(state.language))
    ELSE IF llm.content.form = "none" THEN ChatOutcome(session, env, TRUE, NoReply)
    ELSE ChatParsed(session, state, env, llm.content, parse_llm_response(llm.content), ts)

\* chat_app.py 121-122: the session is written with the user message
ChatRestored(state, env, llm, ts) == ChatCalled(StateToDict(state), state, env, llm, ts)

\* chat_app.on_message: [session, env, raised, sent]
on_message(session, env, message_content, llm, ts) ==
    ChatRestored([StateFromDict(session) EXCEPT
                     !.messages = Append(@, ChatMessage("user", message_content))],
                 env, llm, ts)

(***************************************************************************)
(* Inputs                                                                  *)
(***************************************************************************)
Emails == { <<"A", "@", "x">>, <<" ", "a", "@", "x">> }

MessageText == JStr("msg")

GoodDay == JDict([day |-> JStr("monday"), type |-> JStr("indoor")])
BadDay  == JDict([day |-> JStr("monday")])

FullUpdates ==
    JDict([k \in FieldMapKeys \cup {"booking.playgroupTypes", "booking.selectedDays", "note"} |->
        CASE k = "child.fullName" -> JStr("Lena")
          [] k = "child.dateOfBirth" -> JStr("2022-03-15")
          [] k = "child.specialNeeds" -> JStr("None")
          [] k = "parentGuardian.fullName" -> JStr("Anna")
          [] k = "parentGuardian.streetAddress" -> JStr("Hauptstrasse 1")
          [] k = "parentGuardian.postalCode" -> JInt("8117")
          [] k = "parentGuardian.city" -> JStr("Faellanden")
          [] k = "parentGuardian.phone" -> JStr("044")
          [] k = "parentGuardian.email" -> JStr("anna@x")
          [] k = "emergencyContact.fullName" -> JStr("Hans")
          [] k = "emergencyContact.phone" -> JStr("079")
          [] k = "booking.playgroupTypes" -> JList(<<JStr("indoor")>>)
          [] k = "booking.selectedDays" -> JList(<<GoodDay, BadDay>>)
          [] k = "note" -> JStr("unknown path")])

Turn(reply, updates, next_step, complete, language, intent) ==
    JDict([reply |-> JStr(reply), updates |-> updates, next_step |-> JStr(next_step),
           registration_complete |-> JBool(complete), language |-> JStr(language),
           intent |-> JStr(intent)])

Text(form, raw, json) == [form |-> form, raw |-> raw, json |-> json]

\* the texts the model returns in this model
Contents ==
    { Text("bare", "ask", Turn("reply", JDict(EmptyMap), "child_name", FALSE, "de", "question")),
      Text("fenced", "fill", Turn("reply", FullUpdates, "confirmation", FALSE, "en", "question")),
      Text("bare", "done", Turn("reply", JDict(EmptyMap), "done", TRUE, "de", "question")),
      Text("bare", "filldone", Turn("reply", FullUpdates, "complete", TRUE, "de", "question")),
      Text("embedded", "update",
           JDict([reply |-> JStr("reply"), intent |-> JStr("update"), language |-> JStr("en"),
                  updates |-> JDict([k \in {"parentGuardian.phone", "child.fullName"} |->
                                        IF k = "child.fullName" THEN NULL ELSE JStr("079 999")])])),
      Text("bare", "same",
           JDict([reply |-> JStr("reply"), intent |-> JStr("update"),
                  updates |-> JDict([k \in {"parentGuardian.postalCode"} |-> JInt("8117")])])),
      Text("bare", "new_child",
           JDict([reply |-> JStr("reply"), intent |-> JStr("new_child"), language |-> JStr("en")])),
      Text("bare", "question",
           JDict([reply |-> JStr("reply"), intent |-> JStr("question"),
                  updates |-> JDict([k \in {"parentGuardian.city"} |-> JStr("Zuerich")])])),
      Text("bare", "noreply",
           JDict([updates |-> JDict(EmptyMap), next_step |-> JStr("child_name"),
                  registration_complete |-> JBool(FALSE)])),
      Text("prose", "hello", NULL),
      Text("badbrace", "{oops}", NULL),
      Text("bare", "array", JList(<<JInt("1")>>)),
      Text("bare", "badupdates",
           JDict([reply |-> JStr("reply"), intent |-> JStr("update"),
                  updates |-> JList(<<JInt("1")>>)])),
      Text("none", "", NULL) }

LLMOutcomes ==
    {[raises |-> TRUE, content |-> Text("none", "", NULL)]} \cup
    {[raises |-> FALSE, content |-> c] : c \in Contents}

(***************************************************************************)
(* Initial states: an empty data directory, or one conversation file left  *)
(* by InitialExchanges[i] ordinary exchanges of an unfinished registration *)
(***************************************************************************)
InitialExchanges == {0, MAX_USER_MESSAGES - 1}

RECURSIVE Exchanges(_)
Exchanges(n) ==
    IF n = 0 THEN <<>>
    ELSE Exchanges(n - 1) \o <<ChatMessage("user", MessageText),
                               ChatMessage("assistant", JStr("reply"))>>

KeyOf(email) == normalize_email(email)

InitialState(n) ==
    LET key == KeyOf(CHOOSE e \in Emails : TRUE)
    IN  [ConversationState(key, key) EXCEPT !.messages = Exchanges(n),
                                            !.flow_step = JStr("child_name")]

NoLlm == [raises |-> TRUE, content |-> Text("none", "", NULL)]

NoCall == [op |-> "none", email |-> <<>>, llm |-> NoLlm, raised |-> FALSE,
           reply |-> NoReply, llm_called |-> FALSE, count |-> 0, was_completed |-> FALSE]

NoFaults == [notifier |-> FALSE, save |-> FALSE, write_version |-> FALSE]

\* one collaborator fails on every call made to it
FaultModes ==
    { [NoFaults EXCEPT !.notifier = TRUE],
      [NoFaults EXCEPT !.save = TRUE],
      [NoFaults EXCEPT !.write_version = TRUE] }

NoProbe == [op |-> "none"]

Writers == {1, 2}

\* no save_registration_version call is in progress
Idle == [w \in Writers |-> [pc |-> "idle", version |-> 0, done |-> 0]]

Start ==
    /\ \E n \in InitialExchanges :
          conversations = IF n = 0 THEN EmptyMap ELSE save(EmptyMap, InitialState(n))
    /\ registrations = EmptyMap
    /\ clock = 0
    /\ notifications = <<>>
    /\ returned = <<>>
    /\ last = NoCall
    /\ attempts = <<>>
    /\ ncalls = 0
    /\ probe = NoProbe
    /\ writers = Idle

\* every collaborator works
Init == Start /\ faults = NoFaults

\* the notifier, the conversation write or the version write fails
InitFaults == Start /\ faults \in FaultModes

(***************************************************************************)
(* Actions                                                                 *)
(***************************************************************************)
\* the stored dict of an identity, or what a first call would start from
Stored(convs, key) ==
    IF Exists(convs, key) THEN convs[_conversation_path(key)]
    ELSE StateToDict(ConversationState(key, key))

\* the files and the notifier's log after a call with result r
Effects(r) ==
    /\ conversations' = r.convs
    /\ registrations' = r.env.registrations
    /\ notifications' = r.env.notifications
    /\ returned' = r.env.returned

ProcessMessageResult(parent_email, llm, r, was_completed) ==
    /\ Effects(r)
    /\ last' = [op |-> "process_message", email |-> parent_email,
                llm |-> llm, raised |-> r.raised, reply |-> r.reply,
                llm_called |-> r.llm_called, count |-> r.count,
                was_completed |-> was_completed]
    /\ attempts' = IF OverCap(r.count)
                   THEN Append(attempts, [op |-> "process_message",
                                          key |-> normalize_email(parent_email)])
                   ELSE attempts

ProcessMessage(parent_email, llm) ==
    /\ ncalls < MaxCalls
    /\ ProcessMessageResult(parent_email, llm,
            process_message(conversations, Env, parent_email, MessageText, llm, clock),
            Stored(conversations, normalize_email(parent_email)).completed)
    /\ ncalls' = ncalls + 1
    /\ UNCHANGED <<clock, faults, probe, writers>>

HandleAutomatedMessageResult(sender_email, r, stored) ==
    /\ Effects(r)
    /\ last' = [op |-> "handle_automated_message", email |-> sender_email,
                llm |-> NoLlm, raised |-> r.raised, reply |-> NoReply,
                llm_called |-> FALSE, count |-> UserCount(stored.messages),
                was_completed |-> stored.completed]
    /\ attempts' = Append(attempts, [op |-> "handle_automated_message",
                                     key |-> normalize_email(sender_email)])

HandleAutomatedMessage(sender_email) ==
    /\ ncalls < MaxCalls
    /\ HandleAutomatedMessageResult(sender_email,
            handle_automated_message(conversations, Env, sender_email, "automated sender"),
            Stored(conversations, normalize_email(sender_email)))
    /\ ncalls' = ncalls + 1
    /\ UNCHANGED <<clock, faults, probe, writers>>

\* a second passes on the wall clock
Tick ==
    /\ clock < MaxClock
    /\ clock' = clock + 1
    /\ UNCHANGED <<conversations, registrations, notifications, returned, last,
                   attempts, ncalls, faults, probe, writers>>

Next ==
    \/ \E e \in Emails, llm \in LLMOutcomes : ProcessMessage(e, llm)
    \/ \E e \in Emails : HandleAutomatedMessage(e)
    \/ Tick

Spec == Init /\ [][Next]_vars

(***************************************************************************)
(* Several parents: "a_at_b@x" and "a@b_at_x" are different addresses, and *)
(* "b@x" is a third.                                                       *)
(***************************************************************************)
Identities ==
    { <<"a", "_", "a", "t", "_", "b", "@", "x">>,
      <<"a", "@", "b", "_", "a", "t", "_", "x">>,
      <<"b", "@", "x">> }

NextIdentities ==
    \/ \E e \in Identities, llm \in LLMOutcomes : ProcessMessage(e, llm)
    \/ \E e \in Identities : HandleAutomatedMessage(e)
    \/ Tick

SpecIdentities == Init /\ [][NextIdentities]_vars

SpecFaults == InitFaults /\ [][Next]_vars

(***************************************************************************)
(* A conversation that starts after its registration was completed: the    *)
(* files left by one turn in which the model filled every field and        *)
(* reported registration_complete.                                         *)
(***************************************************************************)
Registered ==
    process_message(EmptyMap,
                    [registrations |-> EmptyMap, notifications |-> <<>>,
                     returned |-> <<>>, faults |-> NoFaults],
                    CHOOSE e \in Emails : TRUE, MessageText,
                    [raises |-> FALSE,
                     content |-> Text("bare", "filldone",
                                      Turn("reply", FullUpdates, "complete", TRUE, "de",
                                           "question"))],
                    0)

InitRegistered ==
    /\ conversations = Registered.convs
    /\ registrations = Registered.env.registrations
    /\ notifications = Registered.env.notifications
    /\ returned = Registered.env.returned
    /\ clock = 0
    /\ last = NoCall
    /\ attempts = <<>>
    /\ ncalls = 0
    /\ probe = NoProbe
    /\ writers = Idle
    /\ faults = NoFaults

SpecRegistered == InitRegistered /\ [][Next]_vars

(***************************************************************************)
(* Direct calls of the pure functions, on inputs drawn from the sets below *)
(***************************************************************************)
Fresh == ConversationState(KeyOf(CHOOSE e \in Emails : TRUE), KeyOf(CHOOSE e \in Emails : TRUE))

Filled == apply_updates(Fresh, FullUpdates)

\* conversation states handed to apply_updates and to to_dict / from_dict
ProbeStates ==
    { Fresh, Filled,
      InitialState(2),
      [Filled EXCEPT !.completed = TRUE, !.language = JStr("en"),
                     !.flow_step = JStr("complete"),
                     !.messages = Exchanges(1)],
      [Fresh EXCEPT !.has_loop_escalated = TRUE, !.loop_escalated = TRUE] }

UpdateKeys == FieldMapKeys \cup {"booking.playgroupTypes", "booking.selectedDays", "note"}

\* updates mappings with a path that is no field path: alone, next to known
\* entries, and a list under a path close to a known one
DriftUpdates ==
    { JDict([k \in {"note"} |-> JStr("x")]),
      JDict([k \in {"note", "child.fullName", "parentGuardian.postalCode"} |->
                CASE k = "note" -> JStr("x")
                  [] k = "child.fullName" -> JStr("Mia")
                  [] k = "parentGuardian.postalCode" -> JInt("8000")]),
      JDict([k \in {"booking.days", "booking.playgroupTypes"} |->
                IF k = "booking.days" THEN JList(<<GoodDay>>)
                ELSE JList(<<JStr("outdoor")>>)]) }

\* updates mappings with empty values: "" for a text field, [] for a list
ClearingUpdates ==
    { JDict([k \in {"child.fullName"} |-> JStr("")]),
      JDict([k \in {"booking.playgroupTypes"} |-> JList(<<>>)]),
      JDict([k \in {"booking.selectedDays"} |-> JList(<<>>)]) }

OutdoorDay == JDict([day |-> JStr("thursday"), type |-> JStr("outdoor"), note |-> JStr("am")])

\* updates mappings for the booking: well-formed entries among malformed
\* ones, malformed ones only, and values that are no lists
DayUpdates ==
    { JDict([k \in {"booking.selectedDays"} |->
                JList(<<OutdoorDay, BadDay, JStr("friday"), GoodDay, NULL,
                        JDict([type |-> JStr("indoor")])>>)]),
      JDict([k \in {"booking.selectedDays"} |-> JList(<<BadDay, JInt("3")>>)]),
      JDict([k \in {"booking.selectedDays"} |-> GoodDay]),
      JDict([k \in {"booking.selectedDays", "booking.playgroupTypes"} |-> JStr("indoor")]) }

\* updates mappings: one null, all null, a null next to a value, all values
ProbeUpdates ==
    {JDict([k \in {key} |-> NULL]) : key \in UpdateKeys} \cup
    { JDict([k \in UpdateKeys |-> NULL]),
      JDict([k \in {"parentGuardian.phone", "child.fullName"} |->
                IF k = "child.fullName" THEN NULL ELSE JStr("079 999")]),
      FullUpdates } \cup DriftUpdates \cup ClearingUpdates \cup DayUpdates

\* the eleven text fields of a record, as <<group, field>>
TextFields ==
    {<<"child", "full_name">>, <<"child", "date_of_birth">>} \cup
    {<<"parent_guardian", f>> : f \in DOMAIN ParentGuardian} \cup
    {<<"emergency_contact", f>> : f \in DOMAIN EmergencyContact}

\* records handed to is_complete: empty, filled, and the filled record with
\* one requirement taken away or special_needs an empty string
ProbeRegistrations ==
    { RegistrationData, Filled.registration } \cup
    { [Filled.registration EXCEPT ![p[1]][p[2]] = v] :
          p \in TextFields, v \in {NULL, JStr("")} } \cup
    { [Filled.registration EXCEPT !.child.special_needs = v] :
          v \in {NULL, JStr(""), JStr("none")} } \cup
    { [Filled.registration EXCEPT !.booking.playgroup_types = <<>>],
      [Filled.registration EXCEPT !.booking.selected_days = <<>>] }

\* registration records handed to _diff_registrations, serialized
ProbeRecords ==
    {RegToDict(reg) : reg \in
        { RegistrationData,
          Filled.registration,
          [Filled.registration EXCEPT !.parent_guardian.phone = JStr("079 999")],
          [Filled.registration EXCEPT !.parent_guardian.phone = NULL,
                                      !.child.full_name = JStr("Lena M")],
          [Filled.registration EXCEPT !.child.special_needs = JBool(TRUE)],
          [Filled.registration EXCEPT !.child.special_needs = JInt("1")],
          [Filled.registration EXCEPT !.booking.playgroup_types =
                                          <<JStr("indoor"), JStr("outdoor")>>,
                                      !.booking.selected_days = <<>>] }}

\* texts handed to parse_llm_response: every string of Contents and ""
ProbeTexts == {c \in Contents : c.form # "none"} \cup {Text("prose", "", NULL)}

\* a probe leaves the rest of the state alone
Probed ==
    UNCHANGED <<conversations, registrations, clock, notifications, returned, last,
                attempts, ncalls, faults, writers>>

ApplyUpdates(state, updates) ==
    /\ probe' = [op |-> "apply_updates", state |-> state, updates |-> updates,
                 raised |-> ApplyUpdatesRaises(updates),
                 out |-> apply_updates(state, updates)]
    /\ Probed

DiffRegistrations(old, new) ==
    /\ probe' = [op |-> "_diff_registrations", old |-> old, new |-> new,
                 out |-> _diff_registrations(old, new)]
    /\ Probed

ParseLlmResponse(content) ==
    /\ probe' = [op |-> "parse_llm_response", content |-> content,
                 out |-> parse_llm_response(content)]
    /\ Probed

RoundTrip(state) ==
    /\ probe' = [op |-> "from_dict", state |-> state, data |-> StateToDict(state),
                 out |-> StateFromDict(StateToDict(state))]
    /\ Probed

IsComplete(reg) ==
    /\ probe' = [op |-> "is_complete", reg |-> reg, out |-> is_complete(reg)]
    /\ Probed

NextPure ==
    \/ \E state \in ProbeStates, updates \in ProbeUpdates : ApplyUpdates(state, updates)
    \/ \E old \in ProbeRecords, new \in ProbeRecords : DiffRegistrations(old, new)
    \/ \E content \in ProbeTexts : ParseLlmResponse(content)
    \/ \E state \in ProbeStates : RoundTrip(state)
    \/ \E reg \in ProbeRegistrations : IsComplete(reg)

SpecPure == Init /\ [][NextPure]_vars

(***************************************************************************)
(* The store called directly, as the storage tests call it                 *)
(***************************************************************************)
StoreCalled(call, saved) ==
    /\ ncalls < MaxStoreCalls
    /\ registrations' = saved.regs
    /\ returned' = Append(returned, [call |-> call, key |-> saved.key,
                                     version |-> saved.version])
    /\ ncalls' = ncalls + 1
    /\ UNCHANGED <<conversations, clock, notifications, last, attempts, faults, probe,
                   writers>>

StoreSaveRegistration(state) ==
    StoreCalled("save_registration", save_registration(registrations, state, clock))

StoreSaveRegistrationVersion(state, change_summary) ==
    StoreCalled("save_registration_version",
                save_registration_version(registrations, state, change_summary, clock))

NextStore ==
    \/ StoreSaveRegistration(Filled)
    \/ StoreSaveRegistrationVersion(Filled, EmptyMap)
    \/ Tick

SpecStore == Init /\ [][NextStore]_vars

(***************************************************************************)
(* Two callers of save_registration_version on one data directory (the     *)
(* e-mail poll loop and the chat application are separate processes): a    *)
(* call reads the history, and writes its file in a later step.            *)
(***************************************************************************)
WriterRead(w, state) ==
    /\ writers[w].pc = "idle"
    /\ writers[w].done < MaxWrites
    /\ writers' = [writers EXCEPT ![w].pc = "read",
                                  ![w].version = ReadVersion(registrations, state)]
    /\ UNCHANGED <<conversations, registrations, clock, notifications, returned, last,
                   attempts, ncalls, faults, probe>>

WriterWritten(w, saved) ==
    /\ registrations' = saved.regs
    /\ returned' = Append(returned, [call |-> "save_registration_version",
                                     key |-> saved.key, version |-> saved.version])
    /\ writers' = [writers EXCEPT ![w].pc = "idle", ![w].version = 0,
                                  ![w].done = @ + 1]
    /\ UNCHANGED <<conversations, clock, notifications, last, attempts, ncalls, faults,
                   probe>>

WriterWrite(w, state) ==
    /\ writers[w].pc = "read"
    /\ WriterWritten(w, WriteVersion(registrations, state, EmptyMap, writers[w].version,
                                     clock))

NextWriters ==
    \/ \E w \in Writers : WriterRead(w, Filled)
    \/ \E w \in Writers : WriterWrite(w, Filled)
    \/ Tick

SpecWriters == Init /\ [][NextWriters]_vars

(***************************************************************************)
(* The chat channel: one browser session of chat_app.py.  The session      *)
(* dict that cl.user_session keeps under "state" is held in conversations  *)
(* under SessionKey; the store and the notifier are those of the e-mail    *)
(* channel.                                                                *)
(***************************************************************************)
\* str(uuid.uuid4()) of on_chat_start
SessionId == <<"u", "1">>

SessionKey == <<"s", "t", "a", "t", "e">>

WELCOME_DE == JStr("welcome")

\* on_chat_start for a brand new session (chat_app.py 100-107)
NewSession ==
    StateToDict([ConversationState(SessionId, <<>>) EXCEPT
                    !.messages = <<ChatMessage("assistant", WELCOME_DE)>>])

InitChat ==
    /\ conversations = (SessionKey :> NewSession)
    /\ registrations = EmptyMap
    /\ clock = 0
    /\ notifications = <<>>
    /\ returned = <<>>
    /\ last = NoCall
    /\ attempts = <<>>
    /\ ncalls = 0
    /\ probe = NoProbe
    /\ writers = Idle
    /\ faults = NoFaults

OnMessageResult(llm, r, before) ==
    /\ conversations' = (SessionKey :> r.session)
    /\ registrations' = r.env.registrations
    /\ notifications' = r.env.notifications
    /\ returned' = r.env.returned
    /\ last' = [op |-> "on_message", email |-> SessionId, llm |-> llm,
                raised |-> r.raised, reply |-> r.sent, llm_called |-> TRUE,
                count |-> UserCount(r.session.messages),
                was_completed |-> before.completed]

OnMessage(llm) ==
    /\ ncalls < MaxCalls
    /\ OnMessageResult(llm,
            on_message(conversations[SessionKey], Env, MessageText, llm, clock),
            conversations[SessionKey])
    /\ ncalls' = ncalls + 1
    /\ UNCHANGED <<clock, attempts, faults, probe, writers>>

NextChat ==
    \/ \E llm \in LLMOutcomes : OnMessage(llm)
    \/ Tick

SpecChat == InitChat /\ [][NextChat]_vars

(***************************************************************************)
(* Observations used by the properties                                     *)
(***************************************************************************)
Keys == {normalize_email(e) : e \in Emails}

Count(log, kind) == Cardinality({i \in 1..Len(log) : log[i].kind = kind})

CallCount(ret, call) == Cardinality({i \in 1..Len(ret) : ret[i].call = call})

Files(regs, key) == RegDir(regs, _email_to_filename(key)).files

LastKey == normalize_email(last.email)

\* the step is an EmailAgent.process_message call
IsTurn == ncalls' = ncalls + 1 /\ last'.op = "process_message"

TurnKey == normalize_email(last'.email)

\* the call went through a handler to the final save
Handled(l) == l.op = "process_message" /\ ~OverCap(l.count) /\ ~l.raised

Parsed(l) == parse_llm_response(l.llm.content)

\* the model answered and its answer reports registration_complete = true
ReportsComplete(l) ==
    /\ ~CallFails(l.llm)
    /\ Parsed(l).kind = "dict"
    /\ Get(Parsed(l).val, "registration_complete", JBool(FALSE)) = JBool(TRUE)

C1_Fired(kind) == Count(notifications', kind) - Count(notifications, kind)

C1_Saves ==
    CallCount(returned', "save_registration") - CallCount(returned, "save_registration")

C1_Step ==
    /\ C1_Saves \in {0, 1}
    /\ C1_Fired("notify_admin") = C1_Saves
    /\ C1_Fired("notify_parent") = C1_Saves
    /\ C1_Saves = 1 =>
          /\ IsTurn
          /\ ~Stored(conversations, TurnKey).completed
          /\ Stored(conversations', TurnKey).completed

Escalations(key) ==
    Cardinality({i \in 1..Len(notifications) :
        /\ notifications[i].kind = "notify_loop_escalation"
        /\ notifications[i].conversation_id = key})

C3_Step ==
    IsTurn =>
        LET before == Stored(conversations, TurnKey)
            after  == Stored(conversations', TurnKey)
        IN  IF last'.count <= MAX_USER_MESSAGES
            THEN last'.llm_called
            ELSE /\ ~last'.raised
                 /\ last'.reply = JStr("")
                 /\ ~last'.llm_called
                 /\ after.messages =
                        Append(before.messages, [role |-> "user", content |-> MessageText])
                 /\ after.registration = before.registration
                 /\ after.completed = before.completed
                 /\ after.flow_step = before.flow_step

C3_MessageCap == [][C3_Step]_vars

(***************************************************************************)
(* C4  As claimed: once an identity has been escalated (its message cap    *)
(* was exceeded or handle_automated_message handled its sender), every     *)
(* later process_message call for it returns "" and calls no model.        *)
(***************************************************************************)
C4_Step ==
    (IsTurn /\ \E i \in 1..Len(attempts) : attempts[i].key = TurnKey) =>
        /\ ~last'.raised
        /\ last'.reply = JStr("")
        /\ ~last'.llm_called

C4_EscalationTerminal == [][C4_Step]_vars

(***************************************************************************)
(* C5  As claimed: for every identity the versions returned by             *)
(* save_registration and save_registration_version are 1, 2, ..., N in     *)
(* call order, and the stored version numbers are exactly 1..N, each once. *)
(***************************************************************************)
ReturnedFor(key) ==
    LET Mine(e) == e.key = _email_to_filename(key)
    IN  SelectSeq(returned, Mine)

C5_ContiguousVersions ==
    \A key \in Keys :
        /\ \A i \in 1..Len(ReturnedFor(key)) : ReturnedFor(key)[i].version = i
        /\ {f.name.version : f \in Files(registrations, key)} = 1..Len(ReturnedFor(key))
        /\ Cardinality(Files(registrations, key)) = Len(ReturnedFor(key))

(***************************************************************************)
(* C6  On a turn handled while completed is false: if the model reports    *)
(* registration_complete = true then completed becomes true, exactly one   *)
(* version-1 snapshot is written, holding the record as it is after this   *)
(* turn's updates, and exactly notify_admin then notify_parent are         *)
(* requested; otherwise completed stays false and nothing is stored or     *)
(* notified.                                                               *)
(***************************************************************************)
C6_Step ==
    (IsTurn /\ Handled(last') /\ ~Stored(conversations, TurnKey).completed) =>
        LET after == Stored(conversations', TurnKey)
            old   == Files(registrations, TurnKey)
            new   == Files(registrations', TurnKey)
            name  == [version |-> 1, ts |-> clock]
            n     == Len(notifications)
        IN  IF ReportsComplete(last')
            THEN /\ after.completed
                 /\ returned' = Append(returned, [call |-> "save_registration",
                                                  key |-> _email_to_filename(TurnKey),
                                                  version |-> 1])
                 /\ {f \in new : f.name # name} = {f \in old : f.name # name}
                 /\ Cardinality({f \in new : f.name = name}) = 1
                 /\ \A f \in new : f.name = name =>
                        /\ f.data.metadata.version = 1
                        /\ \A k \in DOMAIN after.registration :
                               f.data[k] = after.registration[k]
                 /\ Len(notifications') = n + 2
                 /\ SubSeq(notifications', 1, n) = notifications
                 /\ notifications'[n + 1].kind = "notify_admin"
                 /\ notifications'[n + 1].version = 1
                 /\ notifications'[n + 2].kind = "notify_parent"
            ELSE /\ ~after.completed
                 /\ registrations' = registrations
                 /\ notifications' = notifications
                 /\ returned' = returned

C6_CompletionTransition == [][C6_Step]_vars

\* a turn that both filled the record and completed it
C6_Witness ==
    /\ Handled(last) /\ ~last.was_completed /\ ReportsComplete(last)
    /\ last.llm.content.raw = "filldone"
    /\ Stored(conversations, LastKey).completed
    /\ Count(notifications, "notify_parent") = 1

(***************************************************************************)
(* C7  A post-completion "update" turn whose updates leave the serialized  *)
(* record as it was stores no version and requests no                      *)
(* notify_registration_update.                                             *)
(***************************************************************************)
IsUpdateTurn(l) ==
    /\ ~CallFails(l.llm)
    /\ Parsed(l).kind = "dict"
    /\ Get(Parsed(l).val, "intent", JStr("question")) = JStr("update")
    /\ UpdatesOf(Parsed(l)).kind = "dict"
    /\ \E k \in DOMAIN UpdatesOf(Parsed(l)).val : UpdatesOf(Parsed(l)).val[k] # NULL

C7_Step ==
    (/\ IsTurn /\ Handled(last') /\ IsUpdateTurn(last')
     /\ Stored(conversations, TurnKey).completed
     /\ Stored(conversations', TurnKey).registration =
            Stored(conversations, TurnKey).registration) =>
        /\ registrations' = registrations
        /\ returned' = returned
        /\ notifications' = notifications

C7_NoOpUpdate == [][C7_Step]_vars

\* the stored postal code "8117" was sent again as the integer 8117
C7_Witness ==
    /\ Handled(last) /\ last.was_completed /\ IsUpdateTurn(last)
    /\ last.llm.content.raw = "same"
    /\ Stored(conversations, LastKey).registration.parentGuardian.val.postalCode = JStr("8117")
    /\ Len(returned) = 1

(***************************************************************************)
(* C8  A post-completion "update" turn that changes the record stores      *)
(* exactly one new version, numbered (existing versions + 1), whose        *)
(* metadata maps every changed path to {old, new}, keeps the versions      *)
(* already stored, and requests exactly one notify_registration_update     *)
(* with the same diff.                                                     *)
(***************************************************************************)
LeafPaths ==
    { <<"child", "fullName">>, <<"child", "dateOfBirth">>, <<"child", "specialNeeds">>,
      <<"parentGuardian", "fullName">>, <<"parentGuardian", "streetAddress">>,
      <<"parentGuardian", "postalCode">>, <<"parentGuardian", "city">>,
      <<"parentGuardian", "phone">>, <<"parentGuardian", "email">>,
      <<"emergencyContact", "fullName">>, <<"emergencyContact", "phone">>,
      <<"booking", "playgroupTypes">>, <<"booking", "selectedDays">> }

Dotted(p) == p[1] \o "." \o p[2]

Leaf(regdict, p) == regdict[p[1]].val[p[2]]

ChangedPaths(old, new) == {p \in LeafPaths : Leaf(old, p) # Leaf(new, p)}


\* the version file written by the turn
C8_Stored(f, before, after, version, changed) ==
    /\ f.name.version = version
    /\ f.data.metadata.version = version
    /\ \A k \in DOMAIN after : f.data[k] = after[k]
    /\ DOMAIN f.data.metadata.changeSummary = {Dotted(p) : p \in changed}
    /\ \A p \in changed :
          f.data.metadata.changeSummary[Dotted(p)] =
              [old |-> Leaf(before, p), new |-> Leaf(after, p)]

\* the request sent by the turn
C8_Notified(request, before, after, version, changed) ==
    /\ request.kind = "notify_registration_update"
    /\ request.version = version
    /\ DOMAIN request.change_summary = {Dotted(p) : p \in changed}
    /\ \A p \in changed :
          request.change_summary[Dotted(p)] = <<Leaf(before, p), Leaf(after, p)>>

C8_Effects(key, before, after, old, new, version, changed, n) ==
    /\ old \subseteq new
    /\ Cardinality(new \ old) = 1
    /\ \A f \in new \ old : C8_Stored(f, before, after, version, changed)
    /\ returned' = Append(returned, [call |-> "save_registration_version",
                                     key |-> _email_to_filename(key),
                                     version |-> version])
    /\ Len(notifications') = n + 1
    /\ SubSeq(notifications', 1, n) = notifications
    /\ C8_Notified(notifications'[n + 1], before, after, version, changed)

C8_Changed(key, before, after, old) ==
    before # after =>
        C8_Effects(key, before, after, old, Files(registrations', key),
                   Cardinality(old) + 1, ChangedPaths(before, after),
                   Len(notifications))

C8_Turn(key, stored) ==
    stored.completed =>
        C8_Changed(key, stored.registration,
                   Stored(conversations', key).registration,
                   Files(registrations, key))

C8_Step ==
    (IsTurn /\ Handled(last') /\ IsUpdateTurn(last')) =>
        C8_Turn(TurnKey, Stored(conversations, TurnKey))

C8_UpdateVersion == [][C8_Step]_vars

\* version 2 stored by a phone-number update of a completed registration
C8_Witness ==
    /\ Handled(last) /\ last.was_completed /\ IsUpdateTurn(last)
    /\ last.llm.content.raw = "update"
    /\ Len(returned) = 2
    /\ returned[2].call = "save_registration_version" /\ returned[2].version = 2
    /\ Count(notifications, "notify_registration_update") = 1

(***************************************************************************)
(* C9  As claimed: a process_message turn below the message cap never      *)
(* raises, whatever text the model returns and also when the model call    *)
(* raises: it returns a reply and the persisted log ends with the user's   *)
(* message followed by that reply.                                         *)
(***************************************************************************)
C9_NeverRaises ==
    (last.op = "process_message" /\ ~OverCap(last.count)) =>
        LET m == Stored(conversations, LastKey).messages
        IN  /\ ~last.raised
            /\ Len(m) >= 2
            /\ m[Len(m) - 1] = [role |-> "user", content |-> MessageText]
            /\ m[Len(m)] = [role |-> "assistant", content |-> last.reply]

(***************************************************************************)
(* C10  If the model call raises in a handler, process_message does not    *)
(* raise: it returns the canned fallback in the conversation's language    *)
(* (English for "en", German otherwise), the persisted log gains the       *)
(* user's message and then that fallback as an assistant message, and      *)
(* registration, flow_step, completed, the stored versions and the         *)
(* notifications are unchanged.                                            *)
(***************************************************************************)
C10_Step ==
    (IsTurn /\ ~OverCap(last'.count) /\ last'.llm.raises) =>
        LET before == Stored(conversations, TurnKey)
            after  == Stored(conversations', TurnKey)
            canned == IF before.language = JStr("en")
                      THEN JStr(FALLBACK_EN) ELSE JStr(FALLBACK_DE)
        IN  /\ ~last'.raised
            /\ last'.reply = canned
            /\ after.messages = before.messages \o
                   << [role |-> "user", content |-> MessageText],
                      [role |-> "assistant", content |-> canned] >>
            /\ after.registration = before.registration
            /\ after.flow_step = before.flow_step
            /\ after.completed = before.completed
            /\ after.language = before.language
            /\ registrations' = registrations
            /\ returned' = returned
            /\ notifications' = notifications

C10_ModelFailureFallback == [][C10_Step]_vars

\* the model call failed in the post-completion handler of an English conversation
C10_Witness ==
    /\ Handled(last) /\ last.llm.raises /\ last.was_completed
    /\ last.reply = JStr(FALLBACK_EN)
    /\ Stored(conversations, LastKey).completed

(***************************************************************************)
(* C11  As claimed: when the notifier raises on every call, neither entry  *)
(* point raises; a turn that requests a notification returns the reply it  *)
(* returns with a working notifier and stores the same versions; a turn    *)
(* above the message cap and handle_automated_message leave loop_escalated *)
(* = true in the stored state.  The escalation paths raise before they     *)
(* reach the notifier.                                                     *)
(***************************************************************************)
\* the collaborators of the same call, all working
Unfaulted == [Env EXCEPT !.faults = NoFaults]

FlagStored(convs, key) ==
    /\ Exists(convs, key)
    /\ "loop_escalated" \in DOMAIN Stored(convs, key)
    /\ Stored(convs, key)["loop_escalated"] = TRUE

C11_Turn(r0) ==
    /\ (~r0.raised /\ r0.env.notifications # notifications) =>
          /\ ~last'.raised
          /\ last'.reply = r0.reply
          /\ registrations' = r0.env.registrations
    /\ OverCap(last'.count) =>
          /\ ~last'.raised
          /\ FlagStored(conversations', TurnKey)

C11_Step ==
    faults.notifier =>
        /\ IsTurn =>
              C11_Turn(process_message(conversations, Unfaulted, last'.email,
                                       MessageText, last'.llm, clock))
        /\ (ncalls' = ncalls + 1 /\ last'.op = "handle_automated_message") =>
              /\ ~last'.raised
              /\ FlagStored(conversations', TurnKey)

C11_NotifierFailureContained == [][C11_Step]_vars

(***************************************************************************)
(* C12  As claimed: when a store write fails during a turn (the            *)
(* conversation save, or the write of a version snapshot), process_message *)
(* does not raise and returns the reply the turn has with a working store. *)
(* A failed snapshot write leaves save_registration as an exception.       *)
(***************************************************************************)
C12_Turn(r0) == ~r0.raised => (~last'.raised /\ last'.reply = r0.reply)

C12_Step ==
    (IsTurn /\ (faults.save \/ faults.write_version)) =>
        C12_Turn(process_message(conversations, Unfaulted, last'.email,
                                 MessageText, last'.llm, clock))

C12_StoreFailureContained == [][C12_Step]_vars

(***************************************************************************)
(* C14  The stored completed flag of an identity goes from false to true   *)
(* only in a turn of the active-registration handler whose model reports   *)
(* registration_complete, and from true to false only in a post-completion *)
(* turn with intent "new_child"; no other step changes it.                 *)
(***************************************************************************)
Intent(l) == Get(Parsed(l).val, "intent", JStr("question"))

\* the call went through the post-completion handler with a parsed object
PostCompletionTurn(l) ==
    /\ Handled(l) /\ l.was_completed
    /\ ~CallFails(l.llm)
    /\ Parsed(l).kind = "dict"

IsNewChildTurn(l) == PostCompletionTurn(l) /\ Intent(l) = JStr("new_child")

C14_Key(key, before, after) ==
    /\ (~before /\ after) =>
          /\ IsTurn /\ TurnKey = key
          /\ Handled(last') /\ ~last'.was_completed /\ ReportsComplete(last')
    /\ (before /\ ~after) =>
          /\ IsTurn /\ TurnKey = key
          /\ IsNewChildTurn(last')

C14_Step ==
    \A key \in Keys :
        C14_Key(key, Stored(conversations, key).completed,
                Stored(conversations', key).completed)

C14_CompletedTransitions == [][C14_Step]_vars

\* completed went up in a completion transition and a new_child turn has
\* taken it down again
C14_Witness ==
    /\ IsNewChildTurn(last)
    /\ ~Stored(conversations, LastKey).completed
    /\ CallCount(returned, "save_registration") = 1

(***************************************************************************)
(* C15  A post-completion turn with intent "new_child" stores an empty     *)
(* record, completed = false and flow_step = "child_name", appends the     *)
(* user message and the reply to the history it found, keeps the stored    *)
(* versions and returns the model's reply; the next turn of the identity   *)
(* has the outcome of the active-registration handler.                     *)
(***************************************************************************)
C15_Reset(before, after) ==
    /\ after.registration = RegToDict(RegistrationData)
    /\ ~after.completed
    /\ after.flow_step = JStr("child_name")
    /\ after.messages =
          before.messages \o <<[role |-> "user", content |-> MessageText],
                               [role |-> "assistant", content |-> last'.reply]>>
    /\ last'.reply = Get(Parsed(last').val, "reply", JStr(""))
    /\ registrations' = registrations
    /\ returned' = returned

\* the outcome h of _handle_registration on the loaded state
C15_Registration(h) ==
    /\ last'.raised = h.raised
    /\ ~h.raised => /\ last'.reply = h.reply
                    /\ Stored(conversations', TurnKey).completed = h.state.completed
    /\ registrations' = h.env.registrations
    /\ notifications' = h.env.notifications

C15_Next(state) ==
    C15_Registration(
        _handle_registration(
            [state EXCEPT !.messages = Append(@, ChatMessage("user", MessageText))],
            Env, last'.llm, clock))

C15_Step ==
    /\ (IsTurn /\ IsNewChildTurn(last')) =>
          C15_Reset(Stored(conversations, TurnKey), Stored(conversations', TurnKey))
    /\ (IsTurn /\ IsNewChildTurn(last) /\ LastKey = TurnKey /\ ~OverCap(last'.count)) =>
          C15_Next(load(conversations, TurnKey))

C15_NewChild == [][C15_Step]_vars

\* complete, new_child, complete again: the turn after the reset went
\* through the completion transition
C15_Witness ==
    /\ Handled(last) /\ ~last.was_completed /\ ReportsComplete(last)
    /\ CallCount(returned, "save_registration") = 2
    /\ Len(Stored(conversations, LastKey).messages) = 6

(***************************************************************************)
(* C16  A post-completion turn whose intent is neither "new_child" nor an  *)
(* "update" with a non-null value leaves the stored registration,          *)
(* completed, flow_step, the versions and the notifier untouched, whatever *)
(* its updates carry; the log gains the user message and the reply.        *)
(***************************************************************************)
C16_Frame(before, after) ==
    /\ after.registration = before.registration
    /\ after.completed = before.completed
    /\ after.flow_step = before.flow_step
    /\ after.parent_name = before.parent_name
    /\ after.messages =
          before.messages \o <<[role |-> "user", content |-> MessageText],
                               [role |-> "assistant", content |-> last'.reply]>>
    /\ registrations' = registrations
    /\ returned' = returned
    /\ notifications' = notifications

C16_Step ==
    (/\ IsTurn /\ PostCompletionTurn(last')
     /\ ~IsUpdateTurn(last')
     /\ Intent(last') # JStr("new_child")) =>
        C16_Frame(Stored(conversations, TurnKey), Stored(conversations', TurnKey))

C16_QuestionFrame == [][C16_Step]_vars

\* a question turn whose updates name a new city
C16_Witness ==
    /\ PostCompletionTurn(last) /\ last.llm.content.raw = "question"
    /\ AnyNonNull(UpdatesOf(Parsed(last)))
    /\ Stored(conversations, LastKey).registration.parentGuardian.val.city # JStr("Zuerich")

(***************************************************************************)
(* C17  As claimed: the flow_step of every stored conversation is one of   *)
(* the 9 named steps.  The code stores whatever next_step the model gave.  *)
(***************************************************************************)
STEP_DESCRIPTIONS ==
    {"greeting", "child_name", "child_dob", "playgroup_selection", "special_needs",
     "parent_contact", "emergency_contact", "confirmation", "complete"}

C17_FlowStepNamed ==
    \A key \in Keys :
        \E step \in STEP_DESCRIPTIONS : Stored(conversations, key).flow_step = JStr(step)

(***************************************************************************)
(* C13  As claimed: from_dict(to_dict(state)) has the conversation_id,     *)
(* language, flow_step, registration, message log, completed and           *)
(* loop_escalated of state; a new state has loop_escalated = false and so  *)
(* has a state restored from a record without that key.  The class has no  *)
(* such attribute.                                                         *)
(***************************************************************************)
\* reading state.loop_escalated yields value (and does not raise)
LoopEscalatedIs(state, value) == state.has_loop_escalated /\ state.loop_escalated = value

C13_Restored(state, data, out) ==
    /\ out.conversation_id = state.conversation_id
    /\ out.language = state.language
    /\ out.flow_step = state.flow_step
    /\ out.registration = state.registration
    /\ out.messages = state.messages
    /\ out.completed = state.completed
    /\ LoopEscalatedIs(ConversationState(state.conversation_id, state.parent_email), FALSE)
    /\ "loop_escalated" \notin DOMAIN data => LoopEscalatedIs(out, FALSE)
    /\ state.has_loop_escalated => LoopEscalatedIs(out, state.loop_escalated)

C13_RoundTrip == probe.op = "from_dict" => C13_Restored(probe.state, probe.data, probe.out)

(***************************************************************************)
(* C18  apply_updates with an updates mapping whose values are all null    *)
(* returns the state it was given: the record and parent_name keep every   *)
(* value.                                                                  *)
(***************************************************************************)
AllNull(updates) == \A k \in DOMAIN updates.val : updates.val[k] = NULL

C18_NullsKeep ==
    (probe.op = "apply_updates" /\ AllNull(probe.updates)) =>
        /\ probe.out.registration = probe.state.registration
        /\ probe.out.parent_name = probe.state.parent_name
        /\ probe.out = probe.state

\* every path set to null on a filled record
C18_Witness ==
    /\ probe.op = "apply_updates" /\ AllNull(probe.updates)
    /\ DOMAIN probe.updates.val = UpdateKeys
    /\ probe.state.registration.child.full_name = JStr("Lena")
    /\ probe.out.registration.child.full_name = JStr("Lena")
    /\ probe.out.parent_name = JStr("Anna")

(***************************************************************************)
(* C19  _diff_registrations(old, new) of two serialized records has as     *)
(* keys exactly the dotted leaf paths whose values are unequal, each       *)
(* mapped to (old value, new value), and is empty when old = new.  Values  *)
(* are unequal as Python's != has it.                                      *)
(***************************************************************************)
Unequal(old, new) == {p \in LeafPaths : ~PyEq(Leaf(old, p), Leaf(new, p))}

C19_Exact(old, new, diff) ==
    /\ DOMAIN diff = {Dotted(p) : p \in Unequal(old, new)}
    /\ \A p \in Unequal(old, new) : diff[Dotted(p)] = <<Leaf(old, p), Leaf(new, p)>>
    /\ old = new => DOMAIN diff = {}

C19_DiffExact ==
    probe.op = "_diff_registrations" => C19_Exact(probe.old, probe.new, probe.out)

\* two fields changed, one of them to null
C19_Witness ==
    /\ probe.op = "_diff_registrations"
    /\ DOMAIN probe.out = {"parentGuardian.phone", "child.fullName"}
    /\ probe.out["parentGuardian.phone"] = <<JStr("044"), NULL>>

(***************************************************************************)
(* C20  As claimed: parse_llm_response returns a mapping for every text,   *)
(* and for a text in which no strategy finds JSON it returns reply = the   *)
(* text, updates = {}, next_step = "greeting", registration_complete =     *)
(* false, language = "de", intent = "question".  JSON that is not an       *)
(* object is returned as it is.                                            *)
(***************************************************************************)
C20_Parsed(content, out) ==
    /\ out.kind = "dict"
    /\ content.form \in {"prose", "badbrace"} =>
          out = JDict([reply |-> JStr(content.raw),
                       updates |-> JDict(EmptyMap),
                       next_step |-> JStr("greeting"),
                       registration_complete |-> JBool(FALSE),
                       language |-> JStr("de"),
                       intent |-> JStr("question")])

C20_ParseTotal == probe.op = "parse_llm_response" => C20_Parsed(probe.content, probe.out)

(***************************************************************************)
(* C21  normalize_email is idempotent, the spellings of one address (other *)
(* letter case, surrounding blanks) have one key and one conversation      *)
(* file, and a handled turn under any spelling extends the log stored      *)
(* under that key by the user message and the reply.                       *)
(***************************************************************************)
C21_OneKey ==
    /\ \A e \in Emails : normalize_email(normalize_email(e)) = normalize_email(e)
    /\ \A e1, e2 \in Emails : normalize_email(e1) = normalize_email(e2)
    /\ \A e1, e2 \in Emails : _conversation_path(e1) = _conversation_path(e2)

C21_Extends(before, after) ==
    /\ after.conversation_id = TurnKey
    /\ after.messages =
          before.messages \o <<[role |-> "user", content |-> MessageText],
                               [role |-> "assistant", content |-> last'.reply]>>
    /\ DOMAIN conversations' = {_conversation_path(TurnKey)}

C21_Step ==
    /\ C21_OneKey
    /\ (IsTurn /\ Handled(last')) =>
          C21_Extends(Stored(conversations, TurnKey), Stored(conversations', TurnKey))

C21_SameConversation == [][C21_Step]_vars

\* a turn under the spelling " a@x" has extended a log stored before it
C21_Witness ==
    /\ Handled(last) /\ last.email = <<" ", "a", "@", "x">>
    /\ LastKey = <<"a", "@", "x">>
    /\ DOMAIN conversations = {<<"a", "_", "a", "t", "_", "x">>}
    /\ Len(Stored(conversations, LastKey).messages) = 4

(***************************************************************************)
(* C22  As claimed: get_current_registration of an identity is the stored  *)
(* snapshot with the highest version number, and None when no version is   *)
(* stored.  current.json is the snapshot written last, and a completion    *)
(* after a new_child reset writes version 1 again.                         *)
(***************************************************************************)
Versions(files) == {f.name.version : f \in files}

C22_IsLatest(current, files) ==
    IF files = {} THEN current = <<>>
    ELSE /\ current # <<>>
         /\ \E f \in files : f.data = current[1]
         /\ \A v \in Versions(files) : current[1].metadata.version >= v

C22_CurrentIsHighest ==
    \A key \in Keys :
        C22_IsLatest(get_current_registration(registrations, key), Files(registrations, key))

(***************************************************************************)
(* C23  As claimed: get_registration_history returns every stored snapshot *)
(* of the identity exactly once, in ascending version order, for any       *)
(* number of stored versions.  The files are read in the order of their    *)
(* names, and "v10_..." sorts before "v1_...".                             *)
(***************************************************************************)
C23_Ascending(h) ==
    \A i, j \in 1..Len(h) : i < j => h[i].metadata.version <= h[j].metadata.version

C23_EachOnce(h, files) ==
    /\ Len(h) = Cardinality(files)
    /\ \A f \in files : \E i \in 1..Len(h) : h[i] = f.data

C23_HistoryAscending ==
    \A key \in Keys :
        /\ C23_EachOnce(get_registration_history(registrations, key), Files(registrations, key))
        /\ C23_Ascending(get_registration_history(registrations, key))

(***************************************************************************)
(* C24  As claimed: a call that stores a version (save_registration or     *)
(* save_registration_version) leaves every snapshot stored before it as it *)
(* was and adds exactly one.  A file is named by version and second, and   *)
(* save_registration writes version 1 whenever it is called.               *)
(***************************************************************************)
C24_OneMore(before, after) ==
    /\ before \subseteq after
    /\ Cardinality(after) = Cardinality(before) + 1

C24_Step ==
    \A key \in Keys :
        Len(returned') = Len(returned) + 1
            => C24_OneMore(Files(registrations, key), Files(registrations', key))

C24_AppendOnly == [][C24_Step]_vars

(***************************************************************************)
(* C25  As claimed: over process_message and handle_automated_message      *)
(* calls on one identity the persisted message log only grows; a handled   *)
(* turn appends the user message and then the assistant reply, and a turn  *)
(* suppressed by the message cap appends only the user message.  The       *)
(* suppressed turn raises before it saves.                                 *)
(***************************************************************************)
C25_IsPrefix(a, b) == Len(a) <= Len(b) /\ SubSeq(b, 1, Len(a)) = a

C25_Call(before, after, l) ==
    /\ C25_IsPrefix(before, after)
    /\ Handled(l) =>
           after = before \o <<[role |-> "user", content |-> MessageText],
                               [role |-> "assistant", content |-> l.reply]>>
    /\ (l.op = "process_message" /\ OverCap(l.count)) =>
           after = Append(before, [role |-> "user", content |-> MessageText])

C25_Step ==
    ncalls' = ncalls + 1
        => C25_Call(Stored(conversations, TurnKey).messages,
                    Stored(conversations', TurnKey).messages, last')

C25_LogOnlyGrows == [][C25_Step]_vars

(***************************************************************************)
(* C26  As claimed: handle_automated_message produces no reply, calls no   *)
(* model, appends nothing to the message log and leaves registration,      *)
(* completed and flow_step alone; its first call for an identity stores    *)
(* loop_escalated = true and requests one escalation notification, and     *)
(* every call persists the state, creating it if there was none.  The code *)
(* raises on reading state.loop_escalated.                                 *)
(***************************************************************************)
C26_IsFirst(key) == \A i \in 1..Len(attempts) : attempts[i].key # key

C26_Frame(before, after) ==
    /\ after.messages = before.messages
    /\ after.registration = before.registration
    /\ after.completed = before.completed
    /\ after.flow_step = before.flow_step

C26_Call(key, l, before, after) ==
    /\ ~l.raised
    /\ l.reply = NoReply
    /\ ~l.llm_called
    /\ Exists(conversations', key)
    /\ C26_Frame(before, after)
    /\ C26_IsFirst(key) =>
          /\ FlagStored(conversations', key)
          /\ Len(notifications') = Len(notifications) + 1
          /\ notifications'[Len(notifications')].kind = "notify_loop_escalation"

C26_Step ==
    (ncalls' = ncalls + 1 /\ last'.op = "handle_automated_message")
        => C26_Call(TurnKey, last', Stored(conversations, TurnKey),
                    Stored(conversations', TurnKey))

C26_AutomatedMessage == [][C26_Step]_vars

(***************************************************************************)
(* C27  is_complete() is true exactly when the child's name and date of    *)
(* birth, the six parent/guardian fields and the two emergency-contact     *)
(* fields are non-empty, special_needs is non-null (an empty string counts *)
(* as filled), and the booking has a playgroup type and a selected day.    *)
(***************************************************************************)
C27_Required(reg) ==
    /\ \A p \in TextFields : reg[p[1]][p[2]] \notin {NULL, JStr("")}
    /\ reg.child.special_needs # NULL
    /\ reg.booking.playgroup_types # <<>>
    /\ reg.booking.selected_days # <<>>

C27_IsComplete == probe.op = "is_complete" => (probe.out <=> C27_Required(probe.reg))

\* complete with special_needs an empty string
C27_Witness ==
    /\ probe.op = "is_complete"
    /\ probe.reg.child.special_needs = JStr("")
    /\ probe.out

(***************************************************************************)
(* C28  An updates entry whose path is no known field path changes nothing *)
(* and raises nothing: apply_updates returns what it returns for the       *)
(* mapping without such entries, and every known text entry with a value   *)
(* is in the record afterwards.                                            *)
(***************************************************************************)
C28_KnownPart(updates) ==
    JDict([k \in DOMAIN updates.val \cap KnownPaths |-> updates.val[k]])

C28_Field(reg, key) ==
    CASE key = "child.fullName" -> reg.child.full_name
      [] key = "child.dateOfBirth" -> reg.child.date_of_birth
      [] key = "child.specialNeeds" -> reg.child.special_needs
      [] key = "parentGuardian.fullName" -> reg.parent_guardian.full_name
      [] key = "parentGuardian.streetAddress" -> reg.parent_guardian.street_address
      [] key = "parentGuardian.postalCode" -> reg.parent_guardian.postal_code
      [] key = "parentGuardian.city" -> reg.parent_guardian.city
      [] key = "parentGuardian.phone" -> reg.parent_guardian.phone
      [] key = "parentGuardian.email" -> reg.parent_guardian.email
      [] key = "emergencyContact.fullName" -> reg.emergency_contact.full_name
      [] key = "emergencyContact.phone" -> reg.emergency_contact.phone

C28_Applied(updates, out) ==
    \A k \in DOMAIN updates \cap FieldMapKeys :
        updates[k] # NULL =>
            C28_Field(out.registration, k) =
                IF k = "parentGuardian.postalCode" THEN PyStr(updates[k]) ELSE updates[k]

C28_Call(state, updates, out) ==
    /\ out = apply_updates(state, C28_KnownPart(updates))
    /\ C28_Applied(updates.val, out)
    /\ DOMAIN updates.val \cap KnownPaths = {} => out = state

C28_UnknownIgnored ==
    (probe.op = "apply_updates" /\ ~(DOMAIN probe.updates.val \subseteq KnownPaths)) =>
        /\ ~probe.raised
        /\ C28_Call(probe.state, probe.updates, probe.out)

\* an unknown path with a value next to two known entries, on a filled record
C28_Witness ==
    /\ probe.op = "apply_updates"
    /\ "note" \in DOMAIN probe.updates.val
    /\ probe.updates.val["note"] = JStr("x")
    /\ probe.state.registration.child.full_name = JStr("Lena")
    /\ probe.out.registration.child.full_name = JStr("Mia")
    /\ probe.out.registration.parent_guardian.postal_code = JStr("8000")

(***************************************************************************)
(* C29  As claimed: for the same prior Conversation State and the same     *)
(* model output on a turn below the message cap, chat_app.on_message and   *)
(* EmailAgent.process_message produce the same next registration,          *)
(* completed flag and flow_step, store the same versions and request the   *)
(* same notifications (the channel named in notify_admin apart).           *)
(***************************************************************************)
C29_Request(n) == [k \in DOMAIN n \ {"channel"} |-> n[k]]

C29_Requests(log) == [i \in 1..Len(log) |-> C29_Request(log[i])]

C29_Same(chat, after) ==
    /\ chat.session.registration = after.registration
    /\ chat.session.completed = after.completed
    /\ chat.session.flow_step = after.flow_step
    /\ chat.env.registrations = registrations'
    /\ C29_Requests(chat.env.notifications) = C29_Requests(notifications')

C29_Step ==
    (IsTurn /\ ~OverCap(last'.count))
        => C29_Same(on_message(Stored(conversations, TurnKey), Env, MessageText,
                               last'.llm, clock),
                    Stored(conversations', TurnKey))

C29_ChannelsAgree == [][C29_Step]_vars

(***************************************************************************)
(* C30  As claimed: when two save_registration_version calls for one       *)
(* identity interleave, no version number is returned twice and the stored *)
(* version numbers have no gap.  Both calls may read the same count.       *)
(***************************************************************************)
C30_NoReuse ==
    \A i, j \in 1..Len(returned) :
        (i < j /\ returned[i].key = returned[j].key)
            => returned[i].version # returned[j].version

C30_NoGap(versions) == versions = 1..Cardinality(versions)

C30_Interleaved ==
    /\ C30_NoReuse
    /\ \A key \in Keys : C30_NoGap(Versions(Files(registrations, key)))

(***************************************************************************)
(* C31  As claimed: a process_message or handle_automated_message call for *)
(* identity A leaves the persisted Conversation State and the stored       *)
(* registration versions of every identity B with another normalized form  *)
(* as they were.  Two addresses can have one file name.                    *)
(***************************************************************************)
C31_Untouched(key) ==
    /\ Stored(conversations', key) = Stored(conversations, key)
    /\ RegDir(registrations', _email_to_filename(key)) =
           RegDir(registrations, _email_to_filename(key))

C31_Step ==
    ncalls' = ncalls + 1 =>
        \A e \in Identities :
            normalize_email(e) # TurnKey => C31_Untouched(normalize_email(e))

C31_Isolation == [][C31_Step]_vars

(***************************************************************************)
(* C32  As claimed: process_message returns the empty string only when the *)
(* loop guard fires; on every other turn the reply it returns is           *)
(* non-empty.  The reply is whatever the model's JSON carries under        *)
(* "reply", and "" when it carries none.                                   *)
(***************************************************************************)
C32_Step == (IsTurn /\ Handled(last')) => last'.reply # JStr("")

C32_AlwaysReplies == [][C32_Step]_vars

(***************************************************************************)
(* C33  As claimed: every version-1 snapshot stored by the completion      *)
(* transition is of a Registration Record for which is_complete() is true. *)
(* The transition fires on the model's registration_complete flag.         *)
(***************************************************************************)
C33_CompleteSnapshots ==
    \A key \in Keys :
        \A f \in Files(registrations, key) :
            f.name.version = FirstVersion => is_complete(RegFromDict(f.data))

(***************************************************************************)
(* C34  As claimed: apply_updates never empties a filled field: a scalar   *)
(* field that was non-empty before the call is non-empty after it, and a   *)
(* non-empty list of playgroup types or of selected days is not replaced   *)
(* by an empty one.  Only None is skipped; "" and [] are values.           *)
(***************************************************************************)
C34_Filled(v) == v \notin {NULL, JStr("")}

C34_Kept(before, after) ==
    /\ \A p \in TextFields \cup {<<"child", "special_needs">>} :
          C34_Filled(before[p[1]][p[2]]) => C34_Filled(after[p[1]][p[2]])
    /\ before.booking.playgroup_types # <<>> => after.booking.playgroup_types # <<>>
    /\ before.booking.selected_days # <<>> => after.booking.selected_days # <<>>

C34_NeverClears ==
    probe.op = "apply_updates" => C34_Kept(probe.state.registration, probe.out.registration)

(***************************************************************************)
(* C35  A list under "booking.selectedDays" replaces the day list by those *)
(* of its entries that are mappings with a day and a type key, in their    *)
(* order, and raises nothing; a value that is no list under                *)
(* "booking.selectedDays" or "booking.playgroupTypes" leaves the booking   *)
(* as it was.                                                              *)
(***************************************************************************)
RECURSIVE C35_Days(_)
C35_Days(entries) ==
    IF entries = <<>> THEN <<>>
    ELSE IF Head(entries).kind = "dict" /\ {"day", "type"} \subseteq DOMAIN Head(entries).val
         THEN <<[day |-> Head(entries).val["day"], type |-> Head(entries).val["type"]]>>
                  \o C35_Days(Tail(entries))
    ELSE C35_Days(Tail(entries))

C35_Booking(before, updates, after) ==
    /\ after.selected_days =
          IF "booking.selectedDays" \in DOMAIN updates
                /\ updates["booking.selectedDays"].kind = "list"
          THEN C35_Days(updates["booking.selectedDays"].val)
          ELSE before.selected_days
    /\ after.playgroup_types =
          IF "booking.playgroupTypes" \in DOMAIN updates
                /\ updates["booking.playgroupTypes"].kind = "list"
          THEN updates["booking.playgroupTypes"].val
          ELSE before.playgroup_types

C35_SelectedDays ==
    probe.op = "apply_updates" =>
        /\ ~probe.raised
        /\ C35_Booking(probe.state.registration.booking, probe.updates.val,
                       probe.out.registration.booking)

\* six entries on a filled record: the two well-formed ones are kept, in order
C35_Witness ==
    /\ probe.op = "apply_updates"
    /\ "booking.selectedDays" \in DOMAIN probe.updates.val
    /\ probe.updates.val["booking.selectedDays"].kind = "list"
    /\ Len(probe.updates.val["booking.selectedDays"].val) = 6
    /\ probe.state.registration.booking.selected_days = <<BookingDay(JStr("monday"), JStr("indoor"))>>
    /\ probe.out.registration.booking.selected_days =
           <<BookingDay(JStr("thursday"), JStr("outdoor")), BookingDay(JStr("monday"), JStr("indoor"))>>

\* a string under both booking paths leaves a filled booking as it was
C35_WitnessNoList ==
    /\ probe.op = "apply_updates"
    /\ "booking.selectedDays" \in DOMAIN probe.updates.val
    /\ probe.updates.val["booking.selectedDays"] = JStr("indoor")
    /\ probe.out.registration.booking.selected_days # <<>>

(***************************************************************************)
(* C36  As claimed: in the chat channel a post-completion "update" whose   *)
(* values equal the stored registration has an empty diff: no version is   *)
(* stored and notify_registration_update is not requested.                 *)
(***************************************************************************)
\* the step is a chat_app.on_message call
IsChatTurn == ncalls' = ncalls + 1 /\ last'.op = "on_message"

\* the data part of a stored record
C36_Data(record) == [k \in DOMAIN record \ {"metadata"} |-> record[k]]

\* current.json exists and its data is the given registration dict
C36_SameAsStored(regs, reg) ==
    /\ get_current_registration(regs, SessionId) # <<>>
    /\ C36_Data(get_current_registration(regs, SessionId)[1]) = reg

C36_Step ==
    (/\ IsChatTurn /\ ~last'.raised /\ IsUpdateTurn(last')
     /\ conversations[SessionKey].completed
     /\ C36_SameAsStored(registrations, conversations'[SessionKey].registration)) =>
        /\ registrations' = registrations
        /\ returned' = returned
        /\ notifications' = notifications

C36_EmptyDiff == [][C36_Step]_vars

(***************************************************************************)
(* C37  As claimed: in the chat channel, when the model call raises, the   *)
(* session state ends with the user's message followed by the fallback     *)
(* reply as an assistant message.                                          *)
(***************************************************************************)
C37_EndsWith(messages, language) ==
    /\ Len(messages) >= 2
    /\ messages[Len(messages) - 1] = [role |-> "user", content |-> MessageText]
    /\ messages[Len(messages)] = [role |-> "assistant", content |-> fallback_message(language)]

C37_FallbackPersisted ==
    (last.op = "on_message" /\ last.llm.raises) =>
        C37_EndsWith(conversations[SessionKey].messages, conversations[SessionKey].language)

(***************************************************************************)
(* C38  After a turn whose updates set "parentGuardian.postalCode" to a    *)
(* value that is not null, the stored postal code is a string; and a       *)
(* post-completion "update" that sends only the stored code, as an         *)
(* integer, stores no version and requests no notification.                *)
(***************************************************************************)
\* the updates of the turn, where apply_updates is called with them
C38_Updates(l) == UpdatesOf(Parsed(l)).val

\* the turn calls apply_updates with a postal code that is not null
C38_SetsCode(l) ==
    /\ ~CallFails(l.llm)
    /\ Parsed(l).kind = "dict"
    /\ UpdatesOf(Parsed(l)).kind = "dict"
    /\ "parentGuardian.postalCode" \in DOMAIN C38_Updates(l)
    /\ C38_Updates(l)["parentGuardian.postalCode"] # NULL
    /\ (l.was_completed => Intent(l) = JStr("update"))

\* the only value sent is the integer whose digits are the stored code
C38_IntegerForm(l, stored) ==
    /\ \A k \in DOMAIN C38_Updates(l) :
          k # "parentGuardian.postalCode" => C38_Updates(l)[k] = NULL
    /\ C38_Updates(l)["parentGuardian.postalCode"].kind = "int"
    /\ stored.kind = "str"
    /\ C38_Updates(l)["parentGuardian.postalCode"].val = stored.val

C38_Code(convs, key) == Stored(convs, key).registration.parentGuardian.val.postalCode

C38_Step ==
    (IsTurn /\ Handled(last') /\ C38_SetsCode(last')) =>
        /\ C38_Code(conversations', TurnKey).kind = "str"
        /\ (last'.was_completed /\ C38_IntegerForm(last', C38_Code(conversations, TurnKey))) =>
              /\ registrations' = registrations
              /\ returned' = returned
              /\ notifications' = notifications

C38_PostalCodeIsText == [][C38_Step]_vars

\* 8117 was sent after the registration with the code "8117" was completed
C38_Witness ==
    /\ Handled(last) /\ last.was_completed /\ C38_SetsCode(last)
    /\ C38_IntegerForm(last, C38_Code(conversations, LastKey))
    /\ C38_Updates(last)["parentGuardian.postalCode"] = JInt("8117")
    /\ C38_Code(conversations, LastKey) = JStr("8117")
    /\ \E key \in DOMAIN registrations : Versions(registrations[key].files) = {1}

====
